---- MODULE Spec2Model ----
(***************************************************************************)
(* Fingerprint attendance device (sketch_jun1807.ino): the offline         *)
(* attendance queue on the SD card, its drain (syncOfflineLogs), the       *)
(* callers that sequence it (setup, forceSync, scanForFingerprint),        *)
(* device resets, the download of the template library                     *)
(* (syncFingerprintsFromServer) and the transfer of one template to the    *)
(* sensor (uploadTemplateToSensor, decode_base64).                         *)
(*                                                                         *)
(* Specifications: Spec is the device with its card, against a server     *)
(* that holds no template; SpecSync is the boot-time sync against every    *)
(* small answer of the server; SpecUpload is one call of                   *)
(* uploadTemplateToSensor for every template length and packet size;       *)
(* SpecEnroll is the enrollment handler with the sync and the drain it     *)
(* calls; SpecBase64 is encode_base64 and decode_base64 on every small     *)
(* input; SpecLoop is loop() with no button pressed; SpecSleep is loop()    *)
(* with its sleep timer; SpecDevice is one power cycle with every          *)
(* operation: setup, a match, both buttons.  SpecEnrollFair, SpecLoopFair  *)
(* and SpecSleepFair add that the processor carries the program on.        *)
(*                                                                         *)
(* Files are byte streams: a sequence of one-character strings.  The       *)
(* Arduino String and Stream primitives the handlers use (String(n),       *)
(* trim, indexOf, substring, toInt, strtoul, readStringUntil, print,       *)
(* println) are operators that compute what the library computes.          *)
(*                                                                         *)
(* Environment assumptions (not program code):                             *)
(*  - SD.open may fail on any call (card absent or not mounted);           *)
(*    SD.remove and SD.rename succeed on files that exist, the handlers    *)
(*    do not look at their results;                                        *)
(*  - FILE_WRITE truncates (ESP32 core: mode "w");                         *)
(*  - data written to a file is durable once the file is closed;           *)
(*  - the RTC advances between two sensor matches (each match blocks in    *)
(*    displayMessage for at least 3 s), it is battery backed over resets;  *)
(*  - a sensor command that does not report success has changed nothing    *)
(*    in the sensor;                                                       *)
(*  - a DownChar transfer replaces CharBuffer1 by the bytes that arrived,  *)
(*    a DownChar command followed by no data packet leaves it as it was;   *)
(*  - which finger matches is the sensor's affair: a scan can report an    *)
(*    identity whatever the library of the model holds;                    *)
(*  - the program reads millis() only to compare it with lastActivityTime, *)
(*    and every handler ends in showMainMenu, which sets the two equal:    *)
(*    time passes in the iterations of loop() that run no handler, in the  *)
(*    configuration portal and in the sleep, a handler takes none.         *)
(***************************************************************************)
EXTENDS Integers, Sequences, FiniteSets, TLC

\* ---------------------------------------------------------------- bounds
MaxScans == 2
MaxResets == 1
Epoch == 9
MaxPairs == 2       \* pairs in one answer of the all-templates endpoint
MaxLen == 5         \* bytes of a template handed to uploadTemplateToSensor
MaxPacketLen == 2   \* finger.packet_len, scaled down from 32..256
MaxPolls == 2       \* retries of a capture loop, scaled down from 20
MaxBytes == 4       \* bytes handed to encode_base64
MaxText == 4        \* characters handed to decode_base64
MillisWrap == 64    \* seconds after which millis() wraps, scaled from 2^32 ms

\* ------------------------------------------------------- program constants
ROOM_ID == 101
OFFLINE_LOG_FILE == "/attendance_log.txt"
tempLogName == "/temp_log.txt"

FileNames == {OFFLINE_LOG_FILE, tempLogName}

\* identity the sensor reports on a match (finger.fingerID, uint16_t); the
\* handlers pass it through unread and the timestamp tells events apart
FingerIds == {12}

\* results of HTTPClient::POST: a negative client error or a status code
HttpCodes == {-1, 199, 200, 299, 300}

\* ------------------------------------------------------------- characters
LF == "\n"
CR == "\r"
Digits == <<"0", "1", "2", "3", "4", "5", "6", "7", "8", "9">>

IsDigit(c) == \E n \in 1..10 : Digits[n] = c
DigitVal(c) == (CHOOSE n \in 1..10 : Digits[n] = c) - 1
isspace(c) == c \in {" ", LF, CR, "\t"}

\* Arduino String(n) of an unsigned number: its decimal digits
RECURSIVE StringOf(_)
StringOf(n) ==
    IF n < 10 THEN <<Digits[n + 1]>>
    ELSE StringOf(n \div 10) \o <<Digits[(n % 10) + 1]>>

\* String::trim(): drops leading and trailing whitespace
RECURSIVE trimLeft(_)
trimLeft(s) ==
    IF s # <<>> /\ isspace(Head(s)) THEN trimLeft(Tail(s)) ELSE s

RECURSIVE trimRight(_)
trimRight(s) ==
    IF s # <<>> /\ isspace(s[Len(s)])
    THEN trimRight(SubSeq(s, 1, Len(s) - 1)) ELSE s

trim(s) == trimRight(trimLeft(s))

\* String::indexOf(ch, fromIndex): 0-based index of the first ch at or
\* after fromIndex, -1 when there is none
indexOf(s, ch, from) ==
    LET hits == {i \in 0..(Len(s) - 1) : i >= from /\ s[i + 1] = ch}
    IN  IF hits = {} THEN -1
        ELSE CHOOSE i \in hits : \A j \in hits : i <= j

\* String::substring(left, right): the characters [left, right), 0-based
substring(s, left, right) ==
    LET lo == IF left > right THEN right ELSE left
        hi0 == IF left > right THEN left ELSE right
        hi == IF hi0 > Len(s) THEN Len(s) ELSE hi0
    IN  IF lo >= Len(s) THEN <<>> ELSE SubSeq(s, lo + 1, hi)

\* atol / strtoul core: skip leading whitespace, then accumulate the
\* leading decimal digits (0 when there are none)
RECURSIVE digitsValue(_, _)
digitsValue(s, acc) ==
    IF s # <<>> /\ IsDigit(Head(s))
    THEN digitsValue(Tail(s), acc * 10 + DigitVal(Head(s)))
    ELSE acc

\* String::toInt()
toInt(s) == digitsValue(trimLeft(s), 0)

\* strtoul(s, NULL, 10); it saturates at ULONG_MAX = 2^32 - 1, far above any
\* timestamp of the model
strtoul(s) == digitsValue(trimLeft(s), 0)

\* Stream::readStringUntil('\n') from byte offset pos: the characters up to
\* the terminator or the end of the file; the terminator is consumed
readStringUntil(data, pos) ==
    LET ends == {i \in (pos + 1)..Len(data) : data[i] = LF}
        stop == IF ends = {} THEN Len(data) + 1
                ELSE CHOOSE i \in ends : \A j \in ends : i <= j
    IN  [line |-> SubSeq(data, pos + 1, stop - 1),
         pos  |-> IF stop > Len(data) THEN Len(data) ELSE stop]

\* ------------------------------------------------------------ storage
NoFile == [exists |-> FALSE, data |-> <<>>]
FileOf(d) == [exists |-> TRUE, data |-> d]

\* the text logAttendanceOffline prints for one event
logLine(id, roomID, timestamp) ==
    StringOf(id) \o <<",">> \o StringOf(roomID) \o <<",">>
        \o StringOf(timestamp) \o <<LF>>

\* variant: print instead of println, the line is not terminated
println_unterminated(line) == line

\* Print::println(line)
println(line) == line \o <<CR, LF>>

\* the parse of one trimmed line as syncOfflineLogs does it
firstCommaOf(line) == indexOf(line, ",", 0)
secondCommaOf(line) == indexOf(line, ",", firstCommaOf(line) + 1)
\* variant: a comma at index 0 passes the test
wellFormed_fromZero(line) == firstCommaOf(line) >= 0 /\ secondCommaOf(line) > 0

wellFormed(line) == firstCommaOf(line) > 0 /\ secondCommaOf(line) > 0
\* variant: the last field starts at the second comma, not after it
parseLine_fromComma(line) ==
    [id   |-> toInt(substring(line, 0, firstCommaOf(line))) % 65536,
     room |-> toInt(substring(line, firstCommaOf(line) + 1,
                              secondCommaOf(line))) % 256,
     ts   |-> strtoul(substring(line, secondCommaOf(line), Len(line)))]

parseLine(line) ==
    [id   |-> toInt(substring(line, 0, firstCommaOf(line))) % 65536,
     room |-> toInt(substring(line, firstCommaOf(line) + 1,
                              secondCommaOf(line))) % 256,
     ts   |-> strtoul(substring(line, secondCommaOf(line) + 1, Len(line)))]

\* ------------------------------------------------------------ network
\* variant: every status from 200 up counts as success
postJsonToServer_from200(link, httpCode) ==
    IF ~link THEN FALSE ELSE httpCode >= 200

\* postJsonToServer: one POST, success on a 2xx status
postJsonToServer(link, httpCode) ==
    IF ~link THEN FALSE ELSE httpCode >= 200 /\ httpCode < 300

\* logAttendanceToServer: refuses without a link, otherwise posts
logAttendanceToServer(link, httpCode) ==
    IF ~link THEN FALSE ELSE postJsonToServer(link, httpCode)

\* the events a file holds: its non-blank well-formed lines, parsed, in order
RECURSIVE eventsFrom(_, _)
eventsFrom(data, pos) ==
    IF pos >= Len(data) THEN <<>>
    ELSE LET rd == readStringUntil(data, pos)
             line == trim(rd.line)
         IN  IF Len(line) > 0 /\ wellFormed(line)
             THEN <<parseLine(line)>> \o eventsFrom(data, rd.pos)
             ELSE eventsFrom(data, rd.pos)

EventsOf(data) == eventsFrom(data, 0)

Range(s) == {s[i] : i \in 1..Len(s)}

\* ------------------------------------------------------------- base64
\* the alphabet of binary_to_base64, value v at position v + 1
Base64Chars ==
    <<"A", "B", "C", "D", "E", "F", "G", "H", "I", "J", "K", "L", "M",
      "N", "O", "P", "Q", "R", "S", "T", "U", "V", "W", "X", "Y", "Z",
      "a", "b", "c", "d", "e", "f", "g", "h", "i", "j", "k", "l", "m",
      "n", "o", "p", "q", "r", "s", "t", "u", "v", "w", "x", "y", "z",
      "0", "1", "2", "3", "4", "5", "6", "7", "8", "9", "+", "/">>

\* base64_to_binary(c): 0..63 for a character of the alphabet, 255 otherwise
base64_to_binary(c) ==
    IF \E v \in 1..64 : Base64Chars[v] = c
    THEN (CHOOSE v \in 1..64 : Base64Chars[v] = c) - 1
    ELSE 255

\* length of the leading run of alphabet characters of input
RECURSIVE validPrefix(_, _)
validPrefix(input, n) ==
    IF n < Len(input) /\ base64_to_binary(input[n + 1]) < 64
    THEN validPrefix(input, n + 1)
    ELSE n

\* decode_base64_length(input, input_length)
decode_base64_length(input) ==
    LET n == validPrefix(input, 0)
    IN  (n \div 4) * 3 + (IF n % 4 # 0 THEN (n % 4) - 1 ELSE 0)

\* the three bytes a group of four characters decodes to (unsigned char
\* arithmetic: shifts are cut to eight bits).  Every character read for a
\* byte that is kept lies in the valid prefix, so the operands of | have no
\* bit in common and | adds.
decodeGroup(input, at) ==
    LET b(k) == IF at + k <= Len(input)
                THEN base64_to_binary(input[at + k]) ELSE 255
    IN  << ((b(1) * 4) % 256) + (b(2) \div 16),
           ((b(2) * 16) % 256) + (b(3) \div 4),
           ((b(3) * 64) % 256) + (b(4) % 64) >>

\* decode_base64(input, input_length, output): the bytes left in output
RECURSIVE decodeFrom(_, _, _)
decodeFrom(input, at, left) ==
    IF left = 0 THEN <<>>
    ELSE IF left >= 3
    THEN decodeGroup(input, at) \o decodeFrom(input, at + 4, left - 3)
    ELSE SubSeq(decodeGroup(input, at), 1, left)

decode_base64(input) == decodeFrom(input, 0, decode_base64_length(input))

\* variant: the last value of the alphabet is written as the one before it
binary_to_base64_noSlash(v) ==
    IF v < 63 THEN Base64Chars[v + 1] ELSE "+"

\* binary_to_base64(v): the character of value v, character 64 ('@') for a
\* value that has none
binary_to_base64(v) ==
    IF v < 64 THEN Base64Chars[v + 1] ELSE "@"

\* encode_base64_length(input_length)
encode_base64_length(input_length) == ((input_length + 2) \div 3) * 4

\* the four characters of a full set of three bytes (lines 721-724)
encodeSet(b1, b2, b3) ==
    << binary_to_base64(b1 \div 4),
       binary_to_base64((b1 % 4) * 16 + (b2 \div 16)),
       binary_to_base64((b2 % 16) * 4 + (b3 \div 64)),
       binary_to_base64(b3 % 64) >>

\* encode_base64(input, input_length, output): the characters left in
\* output before the terminating zero
RECURSIVE encodeFrom(_, _)
encodeFrom(input, at) ==
    LET left == Len(input) - at
    IN  IF left >= 3
        THEN encodeSet(input[at + 1], input[at + 2], input[at + 3])
                \o encodeFrom(input, at + 3)
        ELSE IF left = 1
        THEN << binary_to_base64(input[at + 1] \div 4),
                binary_to_base64((input[at + 1] % 4) * 16),
                "=", "=" >>
        ELSE IF left = 2
        THEN << binary_to_base64(input[at + 1] \div 4),
                binary_to_base64((input[at + 1] % 4) * 16
                                 + (input[at + 2] \div 16)),
                binary_to_base64((input[at + 2] % 16) * 4),
                "=" >>
        ELSE <<>>

encode_base64(input) == encodeFrom(input, 0)

\* -------------------------------------------------------- sensor packets
FINGERPRINT_OK == 0
FINGERPRINT_PACKETRECIEVEERR == 1
FINGERPRINT_COMMANDPACKET == 1
FINGERPRINT_DATAPACKET == 2
FINGERPRINT_ACKPACKET == 7
FINGERPRINT_ENDDATAPACKET == 8
FINGERPRINT_DOWNCHAR == 9

\* what finger.getStructuredPacket can hand back for one packet written:
\* nothing (timeout or bad packet), or a packet with a type and a first
\* data byte
Responses ==
    [recv : BOOLEAN,
     type : {FINGERPRINT_ACKPACKET, FINGERPRINT_DATAPACKET},
     data0 : {FINGERPRINT_OK, FINGERPRINT_PACKETRECIEVEERR}]

GoodAck ==
    [recv |-> TRUE, type |-> FINGERPRINT_ACKPACKET, data0 |-> FINGERPRINT_OK]

\* the return value after reading one response, -1 to go on
checkResponse(r) ==
    IF ~r.recv THEN FINGERPRINT_PACKETRECIEVEERR
    ELSE IF r.type # FINGERPRINT_ACKPACKET \/ r.data0 # FINGERPRINT_OK
    THEN r.data0
    ELSE -1

\* type of the packet that carries the next chunk
packetType(bytes_left, packet_len) ==
    IF bytes_left > packet_len
    THEN FINGERPRINT_DATAPACKET
    ELSE FINGERPRINT_ENDDATAPACKET

\* the while loop of uploadTemplateToSensor; sent are the packets written so
\* far, responses[k] answers the k-th packet written
RECURSIVE sendChunks(_, _, _, _, _, _)
sendChunks(templateData, bytes_left, bytes_sent, packet_len, responses, sent) ==
    IF bytes_left = 0
    THEN [ret |-> FINGERPRINT_OK, sent |-> sent]
    ELSE LET len_to_send == IF bytes_left > packet_len
                            THEN packet_len ELSE bytes_left
             data_p == [type |-> packetType(bytes_left, packet_len),
                        data |-> SubSeq(templateData, bytes_sent + 1,
                                        bytes_sent + len_to_send)]
             written == Append(sent, data_p)
             code == checkResponse(responses[Len(written)])
         IN  IF code # -1
             THEN [ret |-> code, sent |-> written]
             ELSE sendChunks(templateData, bytes_left - len_to_send,
                             bytes_sent + len_to_send, packet_len,
                             responses, written)

\* uploadTemplateToSensor(templateData, templateSize): the value returned and
\* the packets written to the sensor
uploadTemplateToSensor(templateData, templateSize, packet_len, responses) ==
    LET command_p == [type |-> FINGERPRINT_COMMANDPACKET,
                      data |-> <<FINGERPRINT_DOWNCHAR, 1>>]
        code == checkResponse(responses[1])
    IN  IF code # -1
        THEN [ret |-> code, sent |-> <<command_p>>]
        ELSE sendChunks(templateData, templateSize, 0, packet_len,
                        responses, <<command_p>>)

\* ---------------------------------------------------------------- state
VARIABLES
    sd,         \* the SD card: file name -> [exists, data]
    pc,         \* where the single thread of control is
    rpos,       \* syncOfflineLogs: bytes of logFile already read
    allSynced,  \* syncOfflineLogs: local flag
    wifi,       \* WiFi.status() == WL_CONNECTED
    now,        \* rtc.now().unixtime()
    lcd,        \* first line on the display: displayMessage clears it and
                \* prints, so only the last message is there
    resets,     \* device resets so far
    enqueued,   \* history: events appended by logAttendanceOffline, in order
    acked,      \* history: queued events for which delivery returned true
    attempts,   \* history: delivery attempts of the drain in progress
    chain,      \* history: "enq" after an enqueue that created the queue file,
                \* "enq_drain" while the drain that directly follows it runs,
                \* "enq_drained" once that drain has returned
    stale,      \* history: events acknowledged in a drain that a reset cut
                \* short before the queue file was removed
    templates,  \* the sensor's flash library: identity -> [present, data]
    charBuffer, \* the sensor's CharBuffer1
    packet_len, \* finger.packet_len, loaded by finger.getParameters()
    server,     \* what the all-templates endpoint holds: pairs [id, template]
    pending,    \* syncFingerprintsFromServer: the pairs of users still to do
    io,         \* history: the requests, sensor commands and final message
                \* of the function that ran last, until the next one starts
    calls,      \* history: the sync functions the running handler called
    enroll,     \* enrollNewFingerprint: its locals i, newId and the retries
                \* of the polling loop in progress, and a tick of delay()
    millis,     \* millis(), in seconds, an unsigned counter that wraps
    lastActivityTime,  \* the global of line 79
    quiet       \* history: seconds since a button was last pressed or a
                \* finger last matched, counted up to SLEEP_TIMEOUT + 1

queueVars == <<sd, rpos, allSynced, now, enqueued, acked, attempts, chain, stale>>
sensorVars == <<templates, charBuffer, packet_len>>

vars == <<sd, pc, rpos, allSynced, wifi, now, lcd, resets,
          enqueued, acked, attempts, chain, stale,
          templates, charBuffer, packet_len, server, pending, io, calls,
          enroll, millis, lastActivityTime, quiet>>

\* no enrollment is running
NoEnroll == [i |-> 0, newId |-> 0, retries |-> 0, tick |-> 0]

\* identities that have a place in the sensor's library
SlotIds == {7, 12}

NoTemplate == [present |-> FALSE, data |-> <<>>]
TemplateOf(bytes) == [present |-> TRUE, data |-> bytes]

EmptyLibrary == [id \in SlotIds |-> NoTemplate]

\* the library of a sensor on which identity 12 was enrolled some time ago
EnrolledLibrary == [EmptyLibrary EXCEPT ![12] = TemplateOf(<<9, 9>>)]

\* one entry of the history io
IoRec(op, id, code, data, sent, acks) ==
    [op |-> op, id |-> id, code |-> code, data |-> data,
     sent |-> sent, acks |-> acks]

\* contents a card can hold when the device is first powered (the card is
\* removable, what it holds then is not the program's doing): no queue file,
\* an empty one, or an older event followed by a blank line and two lines
\* the parser rejects.  Every line is newline-terminated, as every line the
\* program writes is.
InitialCards ==
    { NoFile,
      FileOf(<<>>),
      FileOf(<<"4", ",", "1", "0", "1", ",", "5", LF, " ", LF,
               "7", ",", "1", LF, ",", "1", ",", "2", CR, LF>>) }

Init ==
    /\ \E card \in InitialCards :
         sd = [f \in FileNames |-> IF f = OFFLINE_LOG_FILE THEN card ELSE NoFile]
    /\ pc = "boot"
    /\ rpos = 0
    /\ allSynced = TRUE
    /\ wifi \in BOOLEAN
    /\ now = Epoch
    /\ lcd = ""
    /\ resets = 0
    /\ enqueued = <<>>
    /\ acked = {}
    /\ attempts = <<>>
    /\ chain = "none"
    /\ stale = {}
    /\ templates = EmptyLibrary
    /\ charBuffer = <<>>
    /\ packet_len = MaxPacketLen
    /\ enroll = NoEnroll
    /\ millis = 0
    /\ lastActivityTime = 0
    /\ quiet = 0
    /\ server = <<>>
    /\ pending = <<>>
    /\ io = <<>>
    /\ calls = <<>>

\* ------------------------------------------------- syncOfflineLogs pieces
\* variant: the size of the queue file is not looked at
nothingToSync_noSize(file, readOk) ==
    ~(file.exists /\ readOk)

\* line 524: !logFile || !logFile.size()
nothingToSync(file, readOk) ==
    ~(file.exists /\ readOk) \/ Len(file.data) = 0

\* variant: the kept line is put in front of the temp file
keepLine_front(files, line) ==
    [files EXCEPT ![tempLogName].data = println(line) \o @]

\* line 555: tempFile.println(line)
keepLine(files, line) ==
    [files EXCEPT ![tempLogName].data = @ \o println(line)]

\* variant: the queue file is not removed
removeQueue_skipped(files) == files

\* line 562: SD.remove(OFFLINE_LOG_FILE)
removeQueue(files) ==
    [files EXCEPT ![OFFLINE_LOG_FILE] = NoFile]

\* variant: the temp file is always renamed, also when nothing was kept
commitFiles_alwaysRename(files, synced) ==
    [files EXCEPT ![OFFLINE_LOG_FILE] = files[tempLogName],
                  ![tempLogName] = NoFile]

\* variant: the temp file is always deleted, never renamed
commitFiles_neverRename(files, synced) ==
    [files EXCEPT ![tempLogName] = NoFile]

\* lines 563-567: SD.rename(tempLogName, OFFLINE_LOG_FILE) when something was
\* kept, SD.remove(tempLogName) otherwise
commitFiles(files, synced) ==
    IF ~synced
    THEN [files EXCEPT ![OFFLINE_LOG_FILE] = files[tempLogName],
                       ![tempLogName] = NoFile]
    ELSE [files EXCEPT ![tempLogName] = NoFile]

\* ------------------------------------------------------------ handlers
\* handleButtons(), line 223, in an iteration of loop() in which a button
\* acts: the sleep timer starts again
handleButtons_pressed ==
    /\ lastActivityTime' = millis
    /\ quiet' = 0
    /\ UNCHANGED millis

\* setup(): on boot, sync only when the link is up
setup ==
    /\ pc = "boot"
    /\ IF wifi
       THEN /\ lcd' = "WiFi Connected!"
            /\ pc' = "fullsync"
       ELSE /\ lcd' = "Offline Mode"
            /\ pc' = "menu"
    /\ io' = <<>>
    /\ calls' = <<>>
    /\ UNCHANGED <<sd, rpos, allSynced, wifi, now, resets,
                   enqueued, acked, attempts, chain, stale>>
    /\ UNCHANGED <<templates, charBuffer, packet_len, enroll, millis, lastActivityTime, quiet, server, pending>>

\* variant: the manual trigger goes straight to the drain
forceSync_drainOnly ==
    /\ pc = "idle"
    /\ IF ~wifi
       THEN /\ lcd' = "No WiFi"
            /\ pc' = "menu"
       ELSE /\ lcd' = "Force Syncing..."
            /\ pc' = "logs"
    /\ io' = <<>>
    /\ calls' = <<>>
    /\ handleButtons_pressed
    /\ UNCHANGED <<sd, rpos, allSynced, wifi, now, resets,
                   enqueued, acked, attempts, chain, stale>>
    /\ UNCHANGED <<templates, charBuffer, packet_len, enroll, server, pending>>

\* forceSync(): the manual trigger
forceSync ==
    /\ pc = "idle"
    /\ IF ~wifi
       THEN /\ lcd' = "No WiFi"
            /\ pc' = "menu"
       ELSE /\ lcd' = "Force Syncing..."
            /\ pc' = "fullsync"
    /\ io' = <<>>
    /\ calls' = <<>>
    /\ handleButtons_pressed
    /\ UNCHANGED <<sd, rpos, allSynced, wifi, now, resets,
                   enqueued, acked, attempts, chain, stale>>
    /\ UNCHANGED <<templates, charBuffer, packet_len, enroll, server, pending>>

\* ------------------------------------- syncFingerprintsFromServer pieces
HTTP_CODE_OK == 200

\* the text of the last message of a sync that went through its pairs
SyncCompleteText ==
    <<"S", "y", "n", "c", " ", "C", "o", "m", "p", "l", "e", "t", "e", "!">>

\* results of HTTPClient::GET: a client error, 200, another 2xx status
GetCodes == {-1, HTTP_CODE_OK, 299}

\* answers the sensor can give to the commands emptyDatabase and storeModel
CommandCodes == {FINGERPRINT_OK, FINGERPRINT_PACKETRECIEVEERR}

\* answers to the packets of one upload: all good, or good up to one that
\* is not (what follows it is never read)
ResponseRuns(n, bad) ==
    {[k \in 1..n |-> GoodAck]} \cup
    {[k \in 1..n |-> IF k = f THEN b ELSE GoodAck] : f \in 1..n, b \in bad}

\* packets an upload of len bytes writes when every answer is good
packetsFor(len, chunk) == 1 + ((len + chunk - 1) \div chunk)

\* answers other than a good acknowledgement, one for each value
\* checkResponse can return: no answer at all, and a packet of another type
\* whose first data byte is zero
SyncBadResponses ==
    { [recv |-> FALSE, type |-> FINGERPRINT_ACKPACKET, data0 |-> FINGERPRINT_OK],
      [recv |-> TRUE, type |-> FINGERPRINT_DATAPACKET, data0 |-> FINGERPRINT_OK] }

\* the bytes of the data packets among sent, in order
RECURSIVE bytesOf(_)
bytesOf(sent) ==
    IF sent = <<>> THEN <<>>
    ELSE IF Head(sent).type = FINGERPRINT_COMMANDPACKET
    THEN bytesOf(Tail(sent))
    ELSE Head(sent).data \o bytesOf(Tail(sent))

\* the sensor's CharBuffer1 after it was sent the packets sent: a transfer
\* replaces the buffer by the bytes that arrived, no data packet leaves it
\* as it was
bufferAfter(buffer, sent) ==
    IF Len(sent) > 1 THEN bytesOf(sent) ELSE buffer

\* variant: the sync goes on whatever the link
syncEnabled_always(link) == TRUE

\* line 420: the sync goes on only with the link up
syncEnabled(link) == link

\* variant: the sync goes on to the request whatever emptyDatabase said
cleared_ignored(clearCode) == TRUE

\* line 423: the sync goes on only when emptyDatabase reported success
cleared(clearCode) == clearCode = FINGERPRINT_OK

\* variant: the library is left as it was
libraryAfterClear_kept(library, clearCode) == library

\* finger.emptyDatabase(): a command that reports success has emptied the
\* library, one that does not has changed nothing
libraryAfterClear(library, clearCode) ==
    IF clearCode = FINGERPRINT_OK THEN EmptyLibrary ELSE library

\* variant: the loop ends at the first pair that fails
restOf_stopOnFailure(users, ok) == IF ok THEN Tail(users) ELSE <<>>

\* line 447: the range-for moves on to the next pair whatever happened
restOf(users, ok) == Tail(users)

\* syncFingerprintsFromServer(), lines 419-446: link test, emptyDatabase,
\* the GET and the parse of its body
syncFingerprintsFromServer_begin ==
    /\ pc = "fullsync"
    /\ calls' = Append(calls, "syncFingerprintsFromServer")
    /\ IF ~syncEnabled(wifi)
       THEN /\ io' = <<>>
            /\ pc' = "logs"
            /\ UNCHANGED <<lcd, templates, pending>>
       ELSE \E clearCode \in CommandCodes, httpCode \in GetCodes,
               parses \in BOOLEAN :
              LET clear == IoRec("emptyDatabase", 0, clearCode, <<>>, <<>>, <<>>)
                  get == IoRec("GET", 0, httpCode, <<>>, <<>>, <<>>)
              IN  /\ templates' = libraryAfterClear(templates, clearCode)
                  /\ IF ~cleared(clearCode)
                     THEN /\ lcd' = "Error clearing"
                          /\ io' = <<clear>>
                          /\ pc' = "logs"
                          /\ UNCHANGED pending
                     ELSE IF httpCode # HTTP_CODE_OK
                     THEN /\ lcd' = "Sync Failed"
                          /\ io' = <<clear, get>>
                          /\ pc' = "logs"
                          /\ UNCHANGED pending
                     ELSE IF ~parses
                     THEN /\ lcd' = "JSON Parse Err"
                          /\ io' = <<clear, get>>
                          /\ pc' = "logs"
                          /\ UNCHANGED pending
                     ELSE /\ lcd' = "Syncing users"
                          /\ io' = <<clear, get>>
                          /\ pending' = server
                          /\ pc' = "pairs"
    /\ UNCHANGED <<sd, rpos, allSynced, wifi, now, resets,
                   enqueued, acked, attempts, chain, stale>>
    /\ UNCHANGED <<charBuffer, packet_len, enroll, millis, lastActivityTime, quiet, server>>

\* syncFingerprintsFromServer(), lines 447-467: one pair of users
syncFingerprintsFromServer_pair ==
    /\ pc = "pairs"
    /\ pending # <<>>
    /\ LET user == Head(pending)
           decoded_template == decode_base64(user.template)
           decodedLen == Len(decoded_template)
       IN  \E responses \in ResponseRuns(packetsFor(decodedLen, packet_len),
                                        SyncBadResponses),
              storeCode \in CommandCodes :
             LET up == uploadTemplateToSensor(decoded_template,
                                              decodedLen % 65536,
                                              packet_len, responses)
                 buffer == bufferAfter(charBuffer, up.sent)
                 upload == IoRec("uploadTemplateToSensor", user.id, up.ret,
                                 decoded_template, up.sent,
                                 SubSeq(responses, 1, Len(up.sent)))
                 store == IoRec("storeModel", user.id, storeCode,
                                buffer, <<>>, <<>>)
                 uploaded == up.ret = FINGERPRINT_OK
                 stored == uploaded /\ storeCode = FINGERPRINT_OK
             IN  /\ charBuffer' = buffer
                 /\ templates' = IF stored
                                 THEN [templates EXCEPT
                                         ![user.id] = TemplateOf(buffer)]
                                 ELSE templates
                 /\ lcd' = IF ~uploaded THEN "Error uploading"
                           ELSE IF ~stored THEN "Error storing ID"
                           ELSE lcd
                 /\ io' = IF uploaded
                          THEN io \o <<upload, store>>
                          ELSE Append(io, upload)
                 /\ pending' = restOf(pending, stored)
    /\ UNCHANGED <<sd, pc, rpos, allSynced, wifi, now, resets,
                   enqueued, acked, attempts, chain, stale>>
    /\ UNCHANGED <<packet_len, enroll, millis, lastActivityTime, quiet, server, calls>>

\* syncFingerprintsFromServer(), lines 468-472: the loop is over
syncFingerprintsFromServer_end ==
    /\ pc = "pairs"
    /\ pending = <<>>
    /\ lcd' = "Sync Complete!"
    /\ io' = Append(io, IoRec("displayMessage", 0, 0, SyncCompleteText,
                              <<>>, <<>>))
    /\ pc' = "logs"
    /\ UNCHANGED <<sd, rpos, allSynced, wifi, now, resets,
                   enqueued, acked, attempts, chain, stale>>
    /\ UNCHANGED <<templates, charBuffer, packet_len, enroll, millis, lastActivityTime, quiet, server, pending, calls>>

\* syncFingerprintsFromServer(): clears the sensor's library and loads it
\* again from the server
syncFingerprintsFromServer ==
    \/ syncFingerprintsFromServer_begin
    \/ syncFingerprintsFromServer_pair
    \/ syncFingerprintsFromServer_end

\* variant: the queue file is opened with FILE_WRITE and loses its contents
logAttendanceOffline_truncate(files, openOk, id, roomID, timestamp) ==
    IF openOk
    THEN [files EXCEPT ![OFFLINE_LOG_FILE] =
            FileOf(logLine(id, roomID, timestamp))]
    ELSE files

\* logAttendanceOffline(id, roomID, timestamp) on card contents files
logAttendanceOffline(files, openOk, id, roomID, timestamp) ==
    IF openOk
    THEN [files EXCEPT ![OFFLINE_LOG_FILE] =
            FileOf(files[OFFLINE_LOG_FILE].data \o logLine(id, roomID, timestamp))]
    ELSE files

\* what finger.image2Tz() leaves in CharBuffer1 for the finger on the sensor
ScanFeature == <<8>>

\* scanForFingerprint(): a finger matched; deliver now or queue on the card
scanForFingerprint ==
    /\ pc = "idle"
    /\ now < Epoch + MaxScans
    /\ \E fingerID \in FingerIds, httpCode \in HttpCodes, openOk \in BOOLEAN :
         /\ LET ev == [id |-> fingerID, room |-> ROOM_ID, ts |-> now]
            IN  IF logAttendanceToServer(wifi, httpCode)
                THEN /\ lcd' = "Attendance Logged"
                     /\ UNCHANGED <<sd, enqueued, chain>>
                ELSE /\ sd' = logAttendanceOffline(sd, openOk, fingerID,
                                                   ROOM_ID, now)
                     /\ lcd' = IF openOk
                               THEN "Saved Offline"
                               ELSE "SD Write Error!"
                     /\ enqueued' = IF openOk
                                    THEN Append(enqueued, ev) ELSE enqueued
                     /\ chain' = IF openOk /\ ~sd[OFFLINE_LOG_FILE].exists
                                 THEN "enq" ELSE "none"
         /\ io' = IF wifi
                  THEN <<IoRec("POST", fingerID, httpCode, <<>>, <<>>, <<>>)>>
                  ELSE <<>>
    /\ now' = now + 1
    /\ pc' = "menu"
    /\ charBuffer' = ScanFeature
    /\ calls' = <<>>
    /\ lastActivityTime' = millis
    /\ quiet' = 0
    /\ UNCHANGED <<rpos, allSynced, wifi, resets, acked, attempts, stale>>
    /\ UNCHANGED <<templates, packet_len, enroll, millis, server, pending>>

\* variant: the return of line 535 is missing
syncOfflineLogs_open_noReturn ==
    /\ pc = "logs"
    /\ \E readOk \in BOOLEAN, writeOk \in BOOLEAN :
         IF nothingToSync(sd[OFFLINE_LOG_FILE], readOk)
             THEN /\ lcd' = lcd
                  /\ pc' = "menu"
                  /\ chain' = "none"
                  /\ UNCHANGED <<sd, rpos, allSynced>>
             ELSE IF ~writeOk
             THEN /\ lcd' = "SD Error"
                  /\ pc' = "drain"
                  /\ rpos' = 0
                  /\ allSynced' = TRUE
                  /\ chain' = "none"
                  /\ UNCHANGED sd
             ELSE /\ lcd' = "Syncing Logs..."
                  /\ sd' = [sd EXCEPT ![tempLogName] = FileOf(<<>>)]
                  /\ rpos' = 0
                  /\ allSynced' = TRUE
                  /\ pc' = "drain"
                  /\ chain' = IF chain = "enq" THEN "enq_drain" ELSE "none"
    /\ io' = <<>>
    /\ calls' = Append(calls, "syncOfflineLogs")
    /\ UNCHANGED <<wifi, now, resets, enqueued, acked, attempts, stale>>
    /\ UNCHANGED <<templates, charBuffer, packet_len, enroll, millis, lastActivityTime, quiet, server, pending>>

\* syncOfflineLogs(), lines 523-538: open the queue file and the temp file
syncOfflineLogs_open ==
    /\ pc = "logs"
    /\ \E readOk \in BOOLEAN, writeOk \in BOOLEAN :
         IF nothingToSync(sd[OFFLINE_LOG_FILE], readOk)
             THEN /\ lcd' = lcd
                  /\ pc' = "menu"
                  /\ chain' = "none"
                  /\ UNCHANGED <<sd, rpos, allSynced>>
             ELSE IF ~writeOk
             THEN /\ lcd' = "SD Error"
                  /\ pc' = "menu"
                  /\ chain' = "none"
                  /\ UNCHANGED <<sd, rpos, allSynced>>
             ELSE /\ lcd' = "Syncing Logs..."
                  /\ sd' = [sd EXCEPT ![tempLogName] = FileOf(<<>>)]
                  /\ rpos' = 0
                  /\ allSynced' = TRUE
                  /\ pc' = "drain"
                  /\ chain' = IF chain = "enq" THEN "enq_drain" ELSE "none"
    /\ io' = <<>>
    /\ calls' = Append(calls, "syncOfflineLogs")
    /\ UNCHANGED <<wifi, now, resets, enqueued, acked, attempts, stale>>
    /\ UNCHANGED <<templates, charBuffer, packet_len, enroll, millis, lastActivityTime, quiet, server, pending>>

\* syncOfflineLogs(), lines 540-558: one iteration of the read loop (the
\* line is read and trimmed once, rd and line are its values)
syncOfflineLogs_line ==
    /\ pc = "drain"
    /\ rpos < Len(sd[OFFLINE_LOG_FILE].data)
    /\ \E httpCode \in HttpCodes,
          rd \in {readStringUntil(sd[OFFLINE_LOG_FILE].data, rpos)} :
       \E line \in {trim(rd.line)} :
         LET ev == parseLine(line)
             ok == logAttendanceToServer(wifi, httpCode)
         IN  /\ rpos' = rd.pos
             /\ IF Len(line) = 0 \/ ~wellFormed(line)
                THEN UNCHANGED <<sd, allSynced, acked, attempts>>
                ELSE /\ attempts' = Append(attempts,
                            [ev |-> ev, ok |-> ok, again |-> ev \in acked])
                     /\ IF ok
                        THEN /\ acked' = acked \cup {ev}
                             /\ UNCHANGED <<sd, allSynced>>
                        ELSE /\ allSynced' = FALSE
                             /\ sd' = keepLine(sd, line)
                             /\ UNCHANGED acked
    /\ UNCHANGED <<pc, wifi, now, lcd, resets, enqueued, chain, stale>>
    /\ UNCHANGED <<templates, charBuffer, packet_len, enroll, millis, lastActivityTime, quiet, server, pending, io, calls>>

\* syncOfflineLogs(), lines 559-560: both files are closed
syncOfflineLogs_close ==
    /\ pc = "drain"
    /\ rpos >= Len(sd[OFFLINE_LOG_FILE].data)
    /\ pc' = "closed"
    /\ UNCHANGED <<sd, rpos, allSynced, wifi, now, lcd, resets,
                   enqueued, acked, attempts, chain, stale>>
    /\ UNCHANGED <<templates, charBuffer, packet_len, enroll, millis, lastActivityTime, quiet, server, pending, io, calls>>

\* syncOfflineLogs(), line 562: SD.remove(OFFLINE_LOG_FILE)
syncOfflineLogs_remove ==
    /\ pc = "closed"
    /\ sd' = removeQueue(sd)
    /\ pc' = "removed"
    /\ UNCHANGED <<rpos, allSynced, wifi, now, lcd, resets,
                   enqueued, acked, attempts, chain, stale>>
    /\ UNCHANGED <<templates, charBuffer, packet_len, enroll, millis, lastActivityTime, quiet, server, pending, io, calls>>

\* syncOfflineLogs(), lines 563-567: rename the temp file or delete it; the
\* function returns and its locals die
syncOfflineLogs_replace ==
    /\ pc = "removed"
    /\ sd' = commitFiles(sd, allSynced)
    /\ pc' = "menu"
    /\ rpos' = 0
    /\ allSynced' = TRUE
    /\ attempts' = <<>>
    /\ chain' = IF chain = "enq_drain" THEN "enq_drained" ELSE "none"
    /\ UNCHANGED <<wifi, now, lcd, resets, enqueued, acked, stale>>
    /\ UNCHANGED <<templates, charBuffer, packet_len, enroll, millis, lastActivityTime, quiet, server, pending, io, calls>>

\* showMainMenu(): every handler ends with it
showMainMenu ==
    /\ pc = "menu"
    /\ lcd' = "btn1: enroll"
    /\ pc' = "idle"
    /\ io' = <<>>
    /\ calls' = <<>>
    /\ UNCHANGED <<sd, rpos, allSynced, wifi, now, resets,
                   enqueued, acked, attempts, chain, stale>>
    /\ lastActivityTime' = millis
    /\ UNCHANGED <<templates, charBuffer, packet_len, enroll, millis, quiet, server, pending>>

\* ---------------------------------------------------------- environment
\* the link comes and goes at any time
WiFiChange ==
    /\ wifi' = ~wifi
    /\ UNCHANGED <<sd, pc, rpos, allSynced, now, lcd, resets,
                   enqueued, acked, attempts, chain, stale>>
    /\ UNCHANGED <<templates, charBuffer, packet_len, enroll, millis, lastActivityTime, quiet, server, pending, io, calls>>

\* power loss or reset at any point: RAM is lost, the card keeps its closed
\* files; a temp file that was still open keeps none of its data
Reset ==
    /\ resets < MaxResets
    /\ resets' = resets + 1
    /\ pc' = "boot"
    /\ rpos' = 0
    /\ allSynced' = TRUE
    /\ lcd' = ""
    /\ wifi' \in BOOLEAN
    /\ sd' = IF pc = "drain" THEN [sd EXCEPT ![tempLogName].data = <<>>] ELSE sd
    /\ stale' = IF pc \in {"drain", "closed"}
                THEN stale \cup {attempts[i].ev :
                                   i \in {j \in 1..Len(attempts) : attempts[j].ok}}
                ELSE stale
    /\ attempts' = <<>>
    /\ chain' = "none"
    /\ pending' = <<>>
    /\ io' = <<>>
    /\ calls' = <<>>
    /\ millis' = 0
    /\ lastActivityTime' = 0
    /\ quiet' = 0
    /\ UNCHANGED <<now, enqueued, acked>>
    /\ UNCHANGED <<templates, charBuffer, packet_len, enroll, server>>

Operate ==
    \/ setup
    \/ forceSync
    \/ syncFingerprintsFromServer_begin
    \/ syncFingerprintsFromServer_end
    \/ scanForFingerprint
    \/ syncOfflineLogs_open
    \/ syncOfflineLogs_line
    \/ syncOfflineLogs_close
    \/ syncOfflineLogs_remove
    \/ syncOfflineLogs_replace
    \/ showMainMenu
    \/ WiFiChange

Next == Operate \/ Reset

\* the device with resets, against a server that holds no template (no
\* step of the loop over the pairs is ever enabled)
Spec == Init /\ [][Next]_vars

\* the device in one power cycle: enqueue and drain operations only
SpecNoReset == Init /\ [][Operate]_vars

\* ------------------------------------------------- the template sync alone
\* pairs the all-templates endpoint can hold: a template of three bytes, of
\* one byte, an empty one and one with a character outside the alphabet
ServerPairs ==
    { [id |-> 12, template |-> <<"A", "Q", "I", "D">>],
      [id |-> 7, template |-> <<"A", "Q", "=", "=">>],
      [id |-> 7, template |-> <<>>],
      [id |-> 12, template |-> <<"B", "A", "?", "A">>] }

ServerBodies == UNION {[1..n -> ServerPairs] : n \in 0..MaxPairs}

InitialLibraries == {EmptyLibrary, EnrolledLibrary}

\* a device with no queue file whose server holds templates; CharBuffer1 is
\* empty or holds the last finger read before the processor was reset
InitSync ==
    /\ sd = [f \in FileNames |-> NoFile]
    /\ pc = "boot"
    /\ rpos = 0
    /\ allSynced = TRUE
    /\ wifi \in BOOLEAN
    /\ now = Epoch
    /\ lcd = ""
    /\ resets = 0
    /\ enqueued = <<>>
    /\ acked = {}
    /\ attempts = <<>>
    /\ chain = "none"
    /\ stale = {}
    /\ templates \in InitialLibraries
    /\ charBuffer \in {<<>>, ScanFeature}
    /\ packet_len = MaxPacketLen
    /\ enroll = NoEnroll
    /\ millis = 0
    /\ lastActivityTime = 0
    /\ quiet = 0
    /\ server \in ServerBodies
    /\ pending = <<>>
    /\ io = <<>>
    /\ calls = <<>>

\* the sync at boot, with no finger on the sensor and no button pressed
NextSync ==
    \/ setup
    \/ syncFingerprintsFromServer
    \/ syncOfflineLogs_open
    \/ showMainMenu
    \/ WiFiChange

SpecSync == InitSync /\ [][NextSync]_vars

\* ------------------------------------------ uploadTemplateToSensor alone
\* a template of len bytes, byte i holding i
TemplateOfLen(len) == [i \in 1..len |-> i]

\* the sensor is about to be handed a template
InitUpload ==
    /\ sd = [f \in FileNames |-> NoFile]
    /\ pc = "upload"
    /\ rpos = 0
    /\ allSynced = TRUE
    /\ wifi = TRUE
    /\ now = Epoch
    /\ lcd = ""
    /\ resets = 0
    /\ enqueued = <<>>
    /\ acked = {}
    /\ attempts = <<>>
    /\ chain = "none"
    /\ stale = {}
    /\ templates = EmptyLibrary
    /\ charBuffer = <<>>
    /\ packet_len \in 1..MaxPacketLen
    /\ enroll = NoEnroll
    /\ millis = 0
    /\ lastActivityTime = 0
    /\ quiet = 0
    /\ server = <<>>
    /\ pending = <<>>
    /\ io = <<>>
    /\ calls = <<>>

\* one call of uploadTemplateToSensor, for every template length and every
\* run of answers
uploadTemplateToSensor_call ==
    /\ pc = "upload"
    /\ \E len \in 0..MaxLen :
         \E responses \in ResponseRuns(packetsFor(len, packet_len),
                                       Responses \ {GoodAck}) :
           LET up == uploadTemplateToSensor(TemplateOfLen(len), len,
                                            packet_len, responses)
           IN  /\ io' = <<IoRec("uploadTemplateToSensor", 0, up.ret,
                                TemplateOfLen(len), up.sent,
                                SubSeq(responses, 1, Len(up.sent)))>>
               /\ charBuffer' = bufferAfter(charBuffer, up.sent)
    /\ pc' = "uploaded"
    /\ UNCHANGED <<sd, rpos, allSynced, wifi, now, lcd, resets,
                   enqueued, acked, attempts, chain, stale>>
    /\ UNCHANGED <<templates, packet_len, enroll, millis, lastActivityTime, quiet, server, pending, calls>>

SpecUpload == InitUpload /\ [][uploadTemplateToSensor_call]_vars

\* ------------------------------------------ encode_base64, decode_base64
\* byte values that between them have every bit set and every bit clear in
\* each of the positions the encoder cuts at
SampleBytes == {0, 90, 165, 255}

\* characters of a text that is to be decoded: two of the alphabet, the
\* padding character and one that is neither
SampleChars == {"A", "Q", "=", "*"}

\* the sequences over a set of at most n elements
SeqsUpTo(S, n) == UNION {[1..k -> S] : k \in 0..n}

\* a byte string is about to be encoded, or a text to be decoded
InitBase64 ==
    /\ sd = [f \in FileNames |-> NoFile]
    /\ rpos = 0
    /\ allSynced = TRUE
    /\ wifi = TRUE
    /\ now = Epoch
    /\ lcd = ""
    /\ resets = 0
    /\ enqueued = <<>>
    /\ acked = {}
    /\ attempts = <<>>
    /\ chain = "none"
    /\ stale = {}
    /\ templates = EmptyLibrary
    /\ charBuffer = <<>>
    /\ packet_len = MaxPacketLen
    /\ enroll = NoEnroll
    /\ millis = 0
    /\ lastActivityTime = 0
    /\ quiet = 0
    /\ server = <<>>
    /\ pending = <<>>
    /\ calls = <<>>
    /\ \/ /\ pc = "bytes"
          /\ \E b \in SeqsUpTo(SampleBytes, MaxBytes) :
                io = <<IoRec("bytes", 0, Len(b), b, <<>>, <<>>)>>
       \/ /\ pc = "text"
          /\ \E t \in SeqsUpTo(SampleChars, MaxText) :
                io = <<IoRec("text", 0, Len(t), t, <<>>, <<>>)>>

\* encode_base64(input, input_length, output) on the bytes that came last
encode_base64_call ==
    /\ pc = "bytes"
    /\ LET input == io[Len(io)].data
       IN  io' = Append(io, IoRec("encode_base64", 0,
                                  encode_base64_length(Len(input)),
                                  encode_base64(input), <<>>, <<>>))
    /\ pc' = "text"
    /\ UNCHANGED <<sd, rpos, allSynced, wifi, now, lcd, resets, enqueued,
                   acked, attempts, chain, stale, templates, charBuffer,
                   packet_len, enroll, millis, lastActivityTime, quiet, server, pending, calls>>

\* decode_base64(input, input_length, output) on the text that came last
decode_base64_call ==
    /\ pc = "text"
    /\ LET input == io[Len(io)].data
       IN  io' = Append(io, IoRec("decode_base64", 0,
                                  decode_base64_length(input),
                                  decode_base64(input), <<>>, <<>>))
    /\ pc' = "decoded"
    /\ UNCHANGED <<sd, rpos, allSynced, wifi, now, lcd, resets, enqueued,
                   acked, attempts, chain, stale, templates, charBuffer,
                   packet_len, enroll, millis, lastActivityTime, quiet, server, pending, calls>>

NextBase64 == encode_base64_call \/ decode_base64_call

SpecBase64 == InitBase64 /\ [][NextBase64]_vars

\* ------------------------------------------------- enrollNewFingerprint
FINGERPRINT_NOFINGER == 2
FINGERPRINT_IMAGEFAIL == 3
FINGERPRINT_ENROLLMISMATCH == 10
FINGERPRINT_FEATUREFAIL == 7

\* answers of finger.getImage(): an image, no finger, the two errors
\* getFingerprintImageWithTimeout names, and one it does not
ImageCodes ==
    {FINGERPRINT_OK, FINGERPRINT_NOFINGER, FINGERPRINT_PACKETRECIEVEERR,
     FINGERPRINT_IMAGEFAIL, FINGERPRINT_FEATUREFAIL}

\* answers of finger.createModel()
ModelCodes ==
    {FINGERPRINT_OK, FINGERPRINT_ENROLLMISMATCH, FINGERPRINT_PACKETRECIEVEERR}

\* bodies the last-identity endpoint answers with: no identity yet, identity
\* 5, the largest 16-bit identity, and a body that is no number
LastIdBodies ==
    { <<"0">>, <<"5">>, <<"6", "5", "5", "3", "5">>, <<"x">> }

\* results of the GET of the last-identity endpoint: a client error, 200
LastIdCodes == {-1, HTTP_CODE_OK}

\* the card of a device that has an event queued
QueuedCard == CHOOSE card \in InitialCards : card.exists /\ card.data # <<>>

\* the template the sensor builds from the two readings of an enrollment
EnrollModel == <<8, 8>>

\* variant: one more attempt
attemptsLeft_six(i) == i < 6

\* line 312: the condition of the for loop
attemptsLeft(i) == i < 5

\* variant: identity 1 is taken for an allocation
allocated_fromOne(newId) == newId >= 1

\* lines 314 and 319: the allocation gave an identity
allocated(newId) == newId > 1

\* fetchLastIdFromServer(): 0 without a link or without a 200, otherwise the
\* number the body starts with, cut to uint16_t
fetchLastIdFromServer(link, httpCode, body) ==
    IF ~link THEN 0
    ELSE IF httpCode = HTTP_CODE_OK THEN toInt(body) % 65536
    ELSE 0

\* variant: the first poll of the removal loop is taken for a lifted finger
fingerRemoved_anyAnswer(p) == TRUE

\* line 345: the removal loop ends on this answer only
fingerRemoved(p) == p = FINGERPRINT_NOFINGER

\* variant: a failed conversion is passed over
stepOk_ignored(p) == TRUE

\* lines 336, 360, 370, 382: a sensor step succeeded
stepOk(p) == p = FINGERPRINT_OK

\* what an enrollment step leaves alone besides the sensor's buffer
enrollFrame ==
    <<sd, rpos, allSynced, wifi, now, resets, enqueued, acked, attempts,
      chain, stale, templates, packet_len, server, pending, calls,
      millis, lastActivityTime, quiet>>

\* lines 308-311: button 1 released, the handler starts
enrollNewFingerprint_begin ==
    /\ pc = "idle"
    /\ lcd' = "Enrollment:"
    /\ enroll' = NoEnroll
    /\ io' = <<>>
    /\ pc' = "fetch"
    /\ calls' = <<>>
    /\ handleButtons_pressed
    /\ UNCHANGED <<sd, rpos, allSynced, wifi, now, resets, enqueued, acked,
                   attempts, chain, stale, templates, packet_len, server,
                   pending, charBuffer>>

\* lines 312-323: one iteration of the allocation loop, and what follows the
\* loop when this iteration was its last
enrollNewFingerprint_fetch ==
    /\ pc = "fetch"
    /\ \E httpCode \in LastIdCodes, body \in LastIdBodies :
         LET id == fetchLastIdFromServer(wifi, httpCode, body)
             newId == (id + 1) % 65536
         IN  /\ wifi \/ (httpCode = -1 /\ body = <<"0">>)
             /\ httpCode # HTTP_CODE_OK => body = <<"0">>
             /\ io' = IF wifi
                      THEN Append(io, IoRec("GET last id", id, httpCode,
                                            <<>>, <<>>, <<>>))
                      ELSE io
             /\ IF allocated(newId)
                THEN /\ lcd' = "Place finger"
                     /\ enroll' = [enroll EXCEPT !.newId = newId,
                                                 !.retries = MaxPolls]
                     /\ pc' = "capture1"
                ELSE IF attemptsLeft(enroll.i + 1)
                THEN /\ lcd' = "Retrying server"
                     /\ enroll' = [enroll EXCEPT !.newId = newId,
                                                 !.i = @ + 1]
                     /\ pc' = "fetch"
                ELSE /\ lcd' = "Enroll Failed"
                     /\ enroll' = [enroll EXCEPT !.newId = newId,
                                                 !.i = @ + 1]
                     /\ pc' = "menu"
    /\ UNCHANGED enrollFrame
    /\ UNCHANGED charBuffer

\* what getFingerprintImageWithTimeout shows for an answer it gives up on
imageError(p) ==
    IF p = FINGERPRINT_PACKETRECIEVEERR THEN "Comm Error"
    ELSE IF p = FINGERPRINT_IMAGEFAIL THEN "Imaging Error"
    ELSE "Unknown Error"

\* getFingerprintImageWithTimeout (lines 282-304): one iteration of its
\* loop for reading number stage, and lines 328-332 or 352-356 when it
\* returns; retries counts the iterations left
getFingerprintImageWithTimeout(stage, here, next) ==
    /\ pc = here
    /\ \E p \in ImageCodes :
         /\ io' = Append(io, IoRec("getImage", stage, p, <<>>, <<>>, <<>>))
         /\ IF p = FINGERPRINT_OK
            THEN /\ pc' = next
                 /\ UNCHANGED <<lcd, enroll>>
            ELSE IF p = FINGERPRINT_NOFINGER
            THEN IF enroll.retries > 1
                 THEN /\ pc' = here
                      /\ enroll' = [enroll EXCEPT !.retries = @ - 1]
                      /\ lcd' = lcd
                 ELSE /\ pc' = "menu"
                      /\ enroll' = [enroll EXCEPT !.retries = 0]
                      /\ lcd' = "Enroll Failed"
            ELSE /\ pc' = "menu"
                 /\ lcd' = imageError(p)
                 /\ UNCHANGED enroll
    /\ UNCHANGED enrollFrame
    /\ UNCHANGED charBuffer

\* finger.image2Tz(slot) and lines 336-341 or 360-366
image2Tz(slot, here, next, shown) ==
    /\ pc = here
    /\ \E p \in CommandCodes :
         /\ io' = Append(io, IoRec("image2Tz", slot, p, <<>>, <<>>, <<>>))
         /\ IF stepOk(p)
            THEN /\ lcd' = shown
                 /\ pc' = next
                 /\ charBuffer' = IF slot = 1 THEN ScanFeature ELSE charBuffer
            ELSE /\ lcd' = "Image Process"
                 /\ pc' = "menu"
                 /\ charBuffer' = charBuffer
    /\ UNCHANGED enroll
    /\ UNCHANGED enrollFrame

\* lines 326-332: the first reading
enrollNewFingerprint_capture1 ==
    getFingerprintImageWithTimeout(1, "capture1", "convert1")

\* lines 335-341
enrollNewFingerprint_convert1 ==
    image2Tz(1, "convert1", "remove", "Image 1 OK")

\* lines 344-350: one poll of the loop that waits for the finger to be
\* lifted; tick is the parity of the delay(100) calls so far
enrollNewFingerprint_remove ==
    /\ pc = "remove"
    /\ \E p \in ImageCodes :
         IF fingerRemoved(p)
         THEN /\ io' = Append(io, IoRec("getImage", 0, p, <<>>, <<>>, <<>>))
              /\ lcd' = "Place again"
              /\ enroll' = [enroll EXCEPT !.retries = MaxPolls, !.tick = 0]
              /\ pc' = "capture2"
         ELSE /\ enroll' = [enroll EXCEPT !.tick = 1 - @]
              /\ UNCHANGED <<io, lcd, pc>>
    /\ UNCHANGED enrollFrame
    /\ UNCHANGED charBuffer

\* lines 351-356: the second reading
enrollNewFingerprint_capture2 ==
    getFingerprintImageWithTimeout(2, "capture2", "convert2")

\* lines 359-366
enrollNewFingerprint_convert2 ==
    image2Tz(2, "convert2", "fuse", "Image 2 OK")

\* variant: the fused model is stored in the library at once
enrollNewFingerprint_createModel_stored ==
    /\ pc = "fuse"
    /\ \E p \in ModelCodes :
         /\ io' = Append(io, IoRec("createModel", 0, p, <<>>, <<>>, <<>>))
         /\ IF stepOk(p)
            THEN /\ lcd' = "Image 2 OK"
                 /\ pc' = "retrieve"
                 /\ charBuffer' = EnrollModel
                 /\ templates' = [templates EXCEPT
                                    ![7] = TemplateOf(EnrollModel)]
            ELSE /\ lcd' = "Enroll Failed"
                 /\ pc' = "menu"
                 /\ charBuffer' = charBuffer
                 /\ templates' = templates
    /\ UNCHANGED enroll
    /\ UNCHANGED <<sd, rpos, allSynced, wifi, now, resets, enqueued, acked,
                   attempts, chain, stale, packet_len, server, pending, calls,
                   millis, lastActivityTime, quiet>>

\* lines 369-378: finger.createModel()
enrollNewFingerprint_createModel ==
    /\ pc = "fuse"
    /\ \E p \in ModelCodes :
         /\ io' = Append(io, IoRec("createModel", 0, p, <<>>, <<>>, <<>>))
         /\ IF stepOk(p)
            THEN /\ lcd' = "Image 2 OK"
                 /\ pc' = "retrieve"
                 /\ charBuffer' = EnrollModel
            ELSE /\ lcd' = "Enroll Failed"
                 /\ pc' = "menu"
                 /\ charBuffer' = charBuffer
    /\ UNCHANGED enroll
    /\ UNCHANGED enrollFrame

\* lines 381-386: finger.getModel()
enrollNewFingerprint_getModel ==
    /\ pc = "retrieve"
    /\ \E p \in CommandCodes :
         /\ io' = Append(io, IoRec("getModel", 0, p, <<>>, <<>>, <<>>))
         /\ IF stepOk(p)
            THEN /\ lcd' = "Uploading..."
                 /\ pc' = "post"
            ELSE /\ lcd' = "Enroll Failed"
                 /\ pc' = "menu"
    /\ UNCHANGED enroll
    /\ UNCHANGED enrollFrame
    /\ UNCHANGED charBuffer

\* lines 393-415: the pair is posted to the enrollment endpoint
enrollNewFingerprint_post ==
    /\ pc = "post"
    /\ \E httpCode \in HttpCodes :
         /\ wifi \/ httpCode = -1
         /\ io' = IF wifi
                  THEN Append(io, IoRec("POST", enroll.newId, httpCode,
                                        <<>>, <<>>, <<>>))
                  ELSE io
         /\ IF postJsonToServer(wifi, httpCode)
            THEN /\ lcd' = "Enroll Success!"
                 /\ pc' = "enrolled"
            ELSE /\ lcd' = "Upload Failed!"
                 /\ pc' = "menu"
    /\ UNCHANGED enroll
    /\ UNCHANGED enrollFrame
    /\ UNCHANGED charBuffer

\* line 412: forceSync() called by the enrollment (lines 265-275)
enrollNewFingerprint_forceSync ==
    /\ pc = "enrolled"
    /\ IF ~wifi
       THEN /\ lcd' = "No WiFi"
            /\ pc' = "menu"
       ELSE /\ lcd' = "Force Syncing..."
            /\ pc' = "fullsync"
    /\ io' = <<>>
    /\ enroll' = NoEnroll
    /\ UNCHANGED enrollFrame
    /\ UNCHANGED charBuffer

enrollNewFingerprint ==
    \/ enrollNewFingerprint_begin
    \/ enrollNewFingerprint_fetch
    \/ enrollNewFingerprint_capture1
    \/ enrollNewFingerprint_convert1
    \/ enrollNewFingerprint_remove
    \/ enrollNewFingerprint_capture2
    \/ enrollNewFingerprint_convert2
    \/ enrollNewFingerprint_createModel
    \/ enrollNewFingerprint_getModel
    \/ enrollNewFingerprint_post
    \/ enrollNewFingerprint_forceSync

\* a device at its menu with an event queued and an identity enrolled,
\* against a server that holds no template
InitEnroll ==
    /\ sd = [f \in FileNames |->
                IF f = OFFLINE_LOG_FILE THEN QueuedCard ELSE NoFile]
    /\ pc = "idle"
    /\ rpos = 0
    /\ allSynced = TRUE
    /\ wifi \in BOOLEAN
    /\ now = Epoch
    /\ lcd = "btn1: enroll"
    /\ resets = 0
    /\ enqueued = <<>>
    /\ acked = {}
    /\ attempts = <<>>
    /\ chain = "none"
    /\ stale = {}
    /\ templates = EnrolledLibrary
    /\ charBuffer = <<>>
    /\ packet_len = MaxPacketLen
    /\ enroll = NoEnroll
    /\ millis = 0
    /\ lastActivityTime = 0
    /\ quiet = 0
    /\ server = <<>>
    /\ pending = <<>>
    /\ io = <<>>
    /\ calls = <<>>

\* button 1 is the only way in: the enrollment, the sync and the drain it
\* calls, and the link coming and going
EnrollStep ==
    \/ enrollNewFingerprint
    \/ syncFingerprintsFromServer_begin
    \/ syncFingerprintsFromServer_end
    \/ syncOfflineLogs_open
    \/ syncOfflineLogs_line
    \/ syncOfflineLogs_close
    \/ syncOfflineLogs_remove
    \/ syncOfflineLogs_replace
    \/ showMainMenu

NextEnroll == EnrollStep \/ WiFiChange

SpecEnroll == InitEnroll /\ [][NextEnroll]_vars

\* the processor always takes the program's next step; nothing is assumed of
\* the answers of the sensor, the server or the card, nor of the link
SpecEnrollFair == SpecEnroll /\ WF_vars(EnrollStep)

\* ------------------------------------------- loop() with no button pressed
\* a device at its menu, in one power cycle, with any of the cards
InitLoop ==
    /\ \E card \in InitialCards :
         sd = [f \in FileNames |-> IF f = OFFLINE_LOG_FILE THEN card ELSE NoFile]
    /\ pc = "idle"
    /\ rpos = 0
    /\ allSynced = TRUE
    /\ wifi \in BOOLEAN
    /\ now = Epoch
    /\ lcd = "btn1: enroll"
    /\ resets = 0
    /\ enqueued = <<>>
    /\ acked = {}
    /\ attempts = <<>>
    /\ chain = "none"
    /\ stale = {}
    /\ templates = EnrolledLibrary
    /\ charBuffer = <<>>
    /\ packet_len = MaxPacketLen
    /\ enroll = NoEnroll
    /\ millis = 0
    /\ lastActivityTime = 0
    /\ quiet = 0
    /\ server = <<>>
    /\ pending = <<>>
    /\ io = <<>>
    /\ calls = <<>>

\* loop() (lines 128-140) while both buttons stay released: handleButtons
\* calls nothing, scanForFingerprint runs when a finger matches
NextLoop == scanForFingerprint \/ showMainMenu \/ WiFiChange

SpecLoop == InitLoop /\ [][NextLoop]_vars

\* the handler that runs is carried on to its end; whether a finger is put
\* on the sensor and what the link does is not the program's to decide
SpecLoopFair == SpecLoop /\ WF_vars(showMainMenu)

\* ------------------------------------------------- loop() and the sleep timer
\* line 70, in seconds (30000 ms)
SLEEP_TIMEOUT == 30

\* what one iteration of loop() can take when no handler runs: getImage,
\* image2Tz and fingerSearch each answer within the library's 1 s timeout
ScanTimes == {0, 1, 3}

\* how long the configuration portal can stay open before it is left
\* without credentials
PortalTimes == {10, 45}

\* how long the light sleep can last
SleepTimes == {0, 20}

\* uint32_t arithmetic of millis(), on a counter of MillisWrap seconds
wrapped(t) == (t + MillisWrap) % MillisWrap

\* line 137: millis() - lastActivityTime > SLEEP_TIMEOUT
sleepDue(t, since) == wrapped(t - since) > SLEEP_TIMEOUT

\* the history quiet after d more seconds without a press or a match
quietAfter(d) ==
    IF quiet + d > SLEEP_TIMEOUT THEN SLEEP_TIMEOUT + 1 ELSE quiet + d

\* loop(), lines 128-140, one iteration with both buttons released and no
\* match: handleButtons restarts the timer (line 223) and calls nothing,
\* scanForFingerprint returns at line 479, 480 or 481, line 137 compares
loop_noActivity ==
    /\ pc = "idle"
    /\ \E d \in ScanTimes :
         /\ millis' = wrapped(millis + d)
         /\ lastActivityTime' = millis
         /\ quiet' = quietAfter(d)
         /\ pc' = IF sleepDue(wrapped(millis + d), millis)
                  THEN "sleep" ELSE "idle"
    /\ UNCHANGED <<sd, rpos, allSynced, wifi, now, lcd, resets,
                   enqueued, acked, attempts, chain, stale>>
    /\ UNCHANGED <<templates, charBuffer, packet_len, enroll, server, pending,
                   io, calls>>

\* loop(), one iteration with button 2 held for LONG_PRESS_DELAY: lines
\* 257-262 call setupWiFi(true), the portal of lines 574-577 is left without
\* credentials after a while, line 132 skips the scan, line 137 compares.
\* (With credentials the device restarts, line 581.)
handleButtons_longPress ==
    /\ pc = "idle"
    /\ \E t \in PortalTimes :
         /\ millis' = wrapped(millis + t)
         /\ pc' = IF sleepDue(wrapped(millis + t), millis)
                  THEN "sleep" ELSE "idle"
    /\ lastActivityTime' = millis
    /\ quiet' = 0
    /\ lcd' = "Setup Failed"
    /\ io' = <<>>
    /\ calls' = <<>>
    /\ UNCHANGED <<sd, rpos, allSynced, wifi, now, resets,
                   enqueued, acked, attempts, chain, stale>>
    /\ UNCHANGED <<templates, charBuffer, packet_len, enroll, server, pending>>

\* enterLightSleep(), lines 199-211: the message, delay(1000), the sleep and
\* the wake-up; showMainMenu (line 212) follows
enterLightSleep ==
    /\ pc = "sleep"
    /\ \E s \in SleepTimes :
         /\ millis' = wrapped(millis + 1 + s)
         /\ quiet' = quietAfter(1 + s)
    /\ lcd' = "Entering sleep..."
    /\ pc' = "menu"
    /\ UNCHANGED lastActivityTime
    /\ UNCHANGED <<sd, rpos, allSynced, wifi, now, resets,
                   enqueued, acked, attempts, chain, stale>>
    /\ UNCHANGED <<templates, charBuffer, packet_len, enroll, server, pending,
                   io, calls>>

\* a device at its menu with no queue file
InitSleep ==
    /\ InitLoop
    /\ ~sd[OFFLINE_LOG_FILE].exists

\* what the program does next on its own
LoopStep == loop_noActivity \/ enterLightSleep \/ showMainMenu

\* loop() with the fingers that match and the long presses of button 2
NextSleep == LoopStep \/ scanForFingerprint \/ handleButtons_longPress

SpecSleep == InitSleep /\ [][NextSleep]_vars

\* loop() is called again and again; whether a finger is put on the sensor
\* or a button is pressed is not the program's to decide
SpecSleepFair == SpecSleep /\ WF_vars(LoopStep)

\* ------------------------------------------------ every operation together
\* the all-templates endpoint holds one user
OneUserBody == <<[id |-> 7, template |-> <<"A", "Q", "=", "=">>]>>

\* a device that is switched on with events queued on its card and one
\* identity in its library; the RTC allows one more match
InitDevice ==
    /\ sd = [f \in FileNames |->
                IF f = OFFLINE_LOG_FILE THEN QueuedCard ELSE NoFile]
    /\ pc = "boot"
    /\ rpos = 0
    /\ allSynced = TRUE
    /\ wifi \in BOOLEAN
    /\ now = Epoch + MaxScans - 1
    /\ lcd = ""
    /\ resets = 0
    /\ enqueued = <<>>
    /\ acked = {}
    /\ attempts = <<>>
    /\ chain = "none"
    /\ stale = {}
    /\ templates = EnrolledLibrary
    /\ charBuffer = <<>>
    /\ packet_len = MaxPacketLen
    /\ enroll = NoEnroll
    /\ millis = 0
    /\ lastActivityTime = 0
    /\ quiet = 0
    /\ server = OneUserBody
    /\ pending = <<>>
    /\ io = <<>>
    /\ calls = <<>>

\* setup and what loop() can start: a match, button 2, button 1, with the
\* sync and the drain they call
NextDevice ==
    \/ setup
    \/ forceSync
    \/ scanForFingerprint
    \/ syncFingerprintsFromServer
    \/ syncOfflineLogs_open
    \/ syncOfflineLogs_line
    \/ syncOfflineLogs_close
    \/ syncOfflineLogs_remove
    \/ syncOfflineLogs_replace
    \/ enrollNewFingerprint
    \/ showMainMenu

SpecDevice == InitDevice /\ [][NextDevice]_vars

\* ------------------------------------------------------------ properties
QueueData == sd[OFFLINE_LOG_FILE].data
TempData == sd[tempLogName].data

\* every event some file of the card holds
Stored == Range(EventsOf(QueueData)) \cup Range(EventsOf(TempData))

InDrain == pc \in {"drain", "closed", "removed"}

\* a handler has just finished; the display still shows what it reported
HandlerDone == pc = "menu"

Shown(msg) == lcd = msg

\* C1: between operations an event that was appended to the queue file is
\* absent from the card if and only if a delivery of it returned true; an
\* event whose deliveries all returned false is on the card at every moment.
C1_DiscardedIffAcknowledged ==
    \A e \in Range(enqueued) :
        /\ e \notin acked => e \in Stored
        /\ (~InDrain /\ e \in acked) => e \notin Stored

\* C1 witness: after a drain, an older event that was rejected is still
\* queued while a younger one that was accepted is gone.
C1_Witness ==
    /\ HandlerDone
    /\ Shown("Syncing Logs...")
    /\ \E e1 \in Range(enqueued), e2 \in Range(enqueued) :
         /\ e1.ts < e2.ts
         /\ e1 \notin acked /\ e1 \in Range(EventsOf(QueueData))
         /\ e2 \in acked /\ e2 \notin Stored

\* C2: after a reset, the queue file under its original name holds every
\* event that was appended and has not been acknowledged.
C2_CrashSafeCompaction ==
    pc = "boot" =>
        \A e \in Range(enqueued) :
            e \notin acked => e \in Range(EventsOf(QueueData))

\* the step in which syncOfflineLogs performs its last statement and returns
DrainReturns == pc = "removed" /\ pc' = "menu"

\* the step in which syncOfflineLogs is entered
DrainCalled == pc = "logs" /\ pc' \notin {"logs", "boot"}

AttemptEvents == [i \in 1..Len(attempts) |-> attempts[i].ev]

RECURSIVE rejectedOf(_)
rejectedOf(att) ==
    IF att = <<>> THEN <<>>
    ELSE IF Head(att).ok THEN rejectedOf(Tail(att))
    ELSE <<Head(att).ev>> \o rejectedOf(Tail(att))

SomeRejected == \E i \in 1..Len(attempts) : ~attempts[i].ok
AllAccepted == \A i \in 1..Len(attempts) : attempts[i].ok

\* C3: a drain attempts every event of the queue file, and when at least one
\* is rejected the queue file it leaves holds exactly the rejected events,
\* each once, in their original order.
C3_RetainsExactlyRejected ==
    [][/\ (pc = "drain" /\ pc' = "closed") =>
            AttemptEvents = EventsOf(QueueData)
       /\ (DrainReturns /\ SomeRejected) =>
            /\ sd'[OFFLINE_LOG_FILE].exists
            /\ EventsOf(sd'[OFFLINE_LOG_FILE].data) = rejectedOf(attempts)
            /\ ~sd'[tempLogName].exists]_vars

\* C3 witness: of three queued events (the one the card came with and two
\* enqueued behind it) the middle one alone was rejected and is alone in the
\* queue file after the drain.
C3_Witness ==
    /\ HandlerDone
    /\ Shown("Syncing Logs...")
    /\ Len(enqueued) = 2
    /\ acked = {[id |-> 4, room |-> 101, ts |-> 5], enqueued[2]}
    /\ EventsOf(QueueData) = <<enqueued[1]>>

\* C4: when a drain over a non-empty queue file had every delivery accepted,
\* it leaves neither a queue file nor a temp file.
C4_AllAcceptedLeavesNoFile ==
    [][(DrainReturns /\ AllAccepted) =>
          /\ ~sd'[OFFLINE_LOG_FILE].exists
          /\ ~sd'[tempLogName].exists]_vars

\* C4 witness: a drain ran, every appended event is acknowledged and the card
\* holds no file.
C4_Witness ==
    /\ HandlerDone
    /\ Shown("Syncing Logs...")
    /\ Len(enqueued) >= 2
    /\ Range(enqueued) \subseteq acked
    /\ \A f \in FileNames : ~sd[f].exists

\* C5: syncOfflineLogs entered with no queue file or an empty one returns at
\* once: no delivery, no temp file, the card exactly as it was.
C5_EmptyDrainIsNoOp ==
    [][(DrainCalled /\ (~sd[OFFLINE_LOG_FILE].exists \/ QueueData = <<>>)) =>
          /\ pc' = "menu"
          /\ sd' = sd
          /\ attempts' = attempts
          /\ acked' = acked]_vars

\* C5 witness: a full sync has returned over an empty queue file, which is
\* still there, with no temp file and no drain message on the display.
C5_Witness ==
    /\ HandlerDone
    /\ lcd = "Sync Complete!"
    /\ sd[OFFLINE_LOG_FILE].exists /\ QueueData = <<>>
    /\ ~sd[tempLogName].exists

\* C6: an enqueue that created the queue file, directly followed by a drain
\* whose deliveries are all accepted: one delivery, of the enqueued event's
\* identity, location and timestamp, and no queue file afterwards.
C6_EnqueueThenDrain ==
    [][(DrainReturns /\ chain = "enq_drain" /\ AllAccepted) =>
          /\ Len(attempts) = 1
          /\ attempts[1].ev = enqueued[Len(enqueued)]
          /\ attempts[1].ev.room = ROOM_ID
          /\ ~sd'[OFFLINE_LOG_FILE].exists]_vars

\* C6 witness: that drain has returned, the event is acknowledged and no
\* queue file is left.
C6_Witness ==
    /\ chain = "enq_drained"
    /\ HandlerDone
    /\ enqueued # <<>>
    /\ enqueued[Len(enqueued)] \in acked
    /\ ~sd[OFFLINE_LOG_FILE].exists

\* position of an event in the order of enqueueing; 0 for an event that was
\* on the card before the first enqueue
EnqIndex(e) ==
    IF e \in Range(enqueued)
    THEN CHOOSE i \in 1..Len(enqueued) : enqueued[i] = e
    ELSE 0

InEnqueueOrder(evs) ==
    \A i \in 1..Len(evs), j \in 1..Len(evs) :
        i < j => /\ EnqIndex(evs[i]) <= EnqIndex(evs[j])
                 /\ evs[i] \in Range(enqueued) => EnqIndex(evs[i]) < EnqIndex(evs[j])

IsPrefix(a, b) == Len(a) <= Len(b) /\ SubSeq(b, 1, Len(a)) = a

CountOf(ch, text) == Cardinality({i \in 1..Len(text) : text[i] = ch})

\* C7: the queue file always holds its events in enqueue order, a drain
\* attempts them from the front of the file without skipping one, so no
\* event is attempted before an older one that is still queued.
C7_FifoAttempts ==
    /\ InEnqueueOrder(EventsOf(QueueData))
    /\ InEnqueueOrder(AttemptEvents)
    /\ pc \in {"drain", "closed"} => IsPrefix(AttemptEvents, EventsOf(QueueData))

\* C7 witness: a drain has attempted, in this order, an event kept by an
\* earlier drain (its line ends in CR LF) and one enqueued after that drain.
C7_Witness ==
    /\ pc = "closed"
    /\ Len(enqueued) >= 2
    /\ AttemptEvents = <<enqueued[1], enqueued[2]>>
    /\ CountOf(LF, QueueData) = 2
    /\ CountOf(CR, QueueData) = 1
    /\ QueueData[Len(QueueData) - 1] # CR

\* a line without a non-empty identity field followed by two commas
Malformed(line) ==
    ~(Len(line) > 0 /\ line[1] # "," /\ CountOf(",", line) >= 2)

\* the line the next iteration of the read loop works on
CurrentLine == trim(readStringUntil(QueueData, rpos).line)

LineStep == pc = "drain" /\ pc' = "drain" /\ rpos' # rpos

\* C8: a malformed line is neither delivered nor written to the temp file;
\* every other line is delivered, and kept when the delivery is rejected,
\* whatever lines came before it.
C8_MalformedLinesDropped ==
    [][LineStep =>
         IF Malformed(CurrentLine)
         THEN attempts' = attempts /\ acked' = acked /\ sd' = sd
         ELSE /\ Len(attempts') = Len(attempts) + 1
              /\ LET a == attempts'[Len(attempts')]
                 IN  IF a.ok
                     THEN a.ev \in acked' /\ sd' = sd
                     ELSE EventsOf(sd'[tempLogName].data) =
                              Append(EventsOf(TempData), a.ev)]_vars

\* C8 witness: the queue file holds an event, a blank line, two malformed
\* lines and an enqueued event; the first event was delivered, the event
\* behind the malformed lines was attempted, rejected and alone kept.
C8_Witness ==
    /\ pc = "closed"
    /\ CountOf(LF, QueueData) = 5
    /\ Len(attempts) = 2
    /\ attempts[1].ok
    /\ attempts[2].ev = enqueued[1]
    /\ ~attempts[2].ok
    /\ EventsOf(TempData) = <<enqueued[1]>>

\* the step of a sensor match whose immediate delivery failed
ScanQueues ==
    /\ pc = "idle"
    /\ now' = now + 1
    /\ lcd' \in {"Saved Offline", "SD Write Error!"}

\* the queue file grew by one complete line that reads back as the event
AppendedOneLine ==
    LET old == QueueData
        new == sd'[OFFLINE_LOG_FILE].data
        added == SubSeq(new, Len(old) + 1, Len(new))
    IN  /\ sd'[OFFLINE_LOG_FILE].exists
        /\ sd'[tempLogName] = sd[tempLogName]
        /\ Len(new) > Len(old)
        /\ SubSeq(new, 1, Len(old)) = old
        /\ added[Len(added)] = LF
        /\ CountOf(LF, added) = 1
        /\ CountOf(",", added) = 2
        /\ \A i \in 1..(Len(added) - 1) : added[i] = "," \/ IsDigit(added[i])
        /\ Len(enqueued') = Len(enqueued) + 1
        /\ EventsOf(added) = <<enqueued'[Len(enqueued')]>>
        /\ enqueued'[Len(enqueued')].room = ROOM_ID
        /\ enqueued'[Len(enqueued')].ts = now

\* C9: an enqueue either shows the storage error and leaves the card as it
\* was, the event kept nowhere, or appends exactly one newline-terminated
\* line identity,location,timestamp behind the existing contents.
C9_EnqueueAppendsOrReports ==
    [][ScanQueues =>
         IF lcd' = "SD Write Error!"
         THEN sd' = sd /\ enqueued' = enqueued
         ELSE AppendedOneLine]_vars

\* C9 witness: the storage error was shown over a queue file that still holds
\* exactly the events enqueued before.
C9_Witness ==
    /\ HandlerDone
    /\ Shown("SD Write Error!")
    /\ sd[OFFLINE_LOG_FILE].exists
    /\ enqueued # <<>>
    /\ EventsOf(QueueData) = enqueued

\* C10: a drain delivers an already acknowledged event again only when a
\* reset cut short the drain that acknowledged it before the queue file was
\* removed; without a reset nothing is delivered twice.
C10_RedeliveryOnlyAfterReset ==
    \A i \in 1..Len(attempts) :
        attempts[i].again => (resets > 0 /\ attempts[i].ev \in stale)

\* C10 witness: after a reset an acknowledged event is delivered again.
C10_Witness ==
    \E i \in 1..Len(attempts) :
        attempts[i].again /\ attempts[i].ev \in stale /\ attempts[i].ev \in Range(enqueued)

\* ------------------------------------------------ the match handler
\* the step in which scanForFingerprint handles a sensor match
MatchStep == pc = "idle" /\ now' = now + 1

\* the event of the match handled in this step
MatchEvent(id) == [id |-> id, room |-> ROOM_ID, ts |-> now]

\* the POST requests of the function that ran in this step
PostsOf(log) == {i \in 1..Len(log) : log[i].op = "POST"}

\* the server acknowledged the event of this step: a POST answered 2xx
MatchDelivered ==
    \E i \in PostsOf(io') : io'[i].code >= 200 /\ io'[i].code < 300

\* the event of this step was appended to the queue file
MatchQueued ==
    /\ Len(enqueued') = Len(enqueued) + 1
    /\ enqueued'[Len(enqueued')] \in {MatchEvent(id) : id \in FingerIds}
    /\ EventsOf(sd'[OFFLINE_LOG_FILE].data) =
           Append(EventsOf(QueueData), enqueued'[Len(enqueued')])

\* no event was appended and the card is as it was
MatchNotQueued == enqueued' = enqueued /\ sd' = sd

\* one request at most, none without the link
MatchRequests ==
    /\ Cardinality(PostsOf(io')) = (IF wifi THEN 1 ELSE 0)
    /\ Len(io') = Cardinality(PostsOf(io'))

\* C11 as stated: every match ends acknowledged and not queued, or appended
\* to the queue file, the latter exactly when the immediate delivery
\* returned false.
C11_DeliveredOrQueued ==
    [][MatchStep =>
         /\ MatchRequests
         /\ MatchDelivered => MatchNotQueued
         /\ ~MatchDelivered => MatchQueued]_vars

\* C11 amended: a match whose delivery returned false is appended to the
\* queue file, or, when the queue file cannot be opened, is lost with
\* "SD Write Error!" on the display and the card as it was; a match whose
\* delivery returned true is not queued; no request is issued with the
\* link down.
C11_DeliveredQueuedOrLost ==
    [][MatchStep =>
         /\ MatchRequests
         /\ MatchDelivered => (MatchNotQueued /\ lcd' = "Attendance Logged")
         /\ ~MatchDelivered =>
              \/ MatchQueued /\ lcd' = "Saved Offline"
              \/ MatchNotQueued /\ lcd' = "SD Write Error!"]_vars

\* C11 witness: the server answered a match with status 300 and the event is
\* the last one of the queue file.
C11_Witness ==
    /\ HandlerDone
    /\ Len(io) = 1 /\ io[1].op = "POST" /\ io[1].code = 300
    /\ lcd = "Saved Offline"
    /\ enqueued # <<>>
    /\ enqueued[Len(enqueued)].ts = now - 1
    /\ EventsOf(QueueData) # <<>>
    /\ EventsOf(QueueData)[Len(EventsOf(QueueData))] = enqueued[Len(enqueued)]

\* --------------------------------------------------- the orchestrator
\* the step in which setup or forceSync tests the link
TriggerStep ==
    pc \in {"boot", "idle"} /\ pc' \notin {"boot", "idle"} /\ now' = now

\* the step in which a handler that went into the sync returns
SyncReturns == pc \notin {"boot", "idle", "menu"} /\ pc' = "menu"

\* the calls of one trigger with the link up, in order
SyncCalls == <<"syncFingerprintsFromServer", "syncOfflineLogs">>

\* C12: a trigger (boot, manual sync) with the link up goes into the full
\* sync, the drain is entered only when the full sync has returned, and the
\* handler returns only after exactly one call of each, in this order,
\* whatever the full sync did; a trigger with the link down returns with
\* neither called.
C12_FullSyncThenDrain ==
    [][/\ IsPrefix(calls', SyncCalls)
       /\ TriggerStep =>
            /\ calls' = <<>>
            /\ wifi => pc' = "fullsync"
            /\ ~wifi => pc' = "menu"
       /\ (calls' # calls /\ calls' = SyncCalls) =>
            (pc = "logs" /\ calls = <<"syncFingerprintsFromServer">>)
       /\ SyncReturns => calls' = SyncCalls]_vars

\* C12 witness: a handler has returned after a full sync whose request
\* failed and a drain, one call each.
C12_Witness ==
    /\ HandlerDone
    /\ calls = SyncCalls
    /\ lcd = "Sync Failed"

\* -------------------------------------------------- the template sync
\* the step in which syncFingerprintsFromServer is entered
FullSyncEntered == pc = "fullsync" /\ pc' \in {"logs", "pairs"}

\* the entries of a history for one operation
OpsOf(log, op) == {i \in 1..Len(log) : log[i].op = op}

\* C13: a full sync entered with the link down returns at once: no sensor
\* command, no request, no upload, no store, the library, the buffer and
\* the display as they were.
C13_LinkDownIsNoOp ==
    [][(FullSyncEntered /\ ~wifi) =>
         /\ pc' = "logs"
         /\ io' = <<>>
         /\ templates' = templates
         /\ charBuffer' = charBuffer
         /\ pending' = pending
         /\ lcd' = lcd]_vars

\* C13 witness: the link dropped after the boot test; the full sync has
\* returned with nothing done and the enrolled library still in place.
C13_Witness ==
    /\ pc = "logs"
    /\ calls = <<"syncFingerprintsFromServer">>
    /\ io = <<>>
    /\ lcd = "WiFi Connected!"
    /\ templates = EnrolledLibrary
    /\ server # <<>>

\* a full sync is running or has just returned
InFullSync == pc \in {"pairs", "logs"}

\* C14: whatever a full sync does on the network or with a template comes
\* after an emptyDatabase that reported success; after one that did not, the
\* sync has returned with no request, no upload and no store.
C14_ClearBeforeRequest ==
    (InFullSync /\ io # <<>>) =>
        /\ io[1].op = "emptyDatabase"
        /\ OpsOf(io, "emptyDatabase") = {1}
        /\ io[1].code # FINGERPRINT_OK => (Len(io) = 1 /\ pc = "logs")
        /\ Len(io) > 1 => io[2].op = "GET"

\* C14 witness: emptyDatabase failed against a server that holds templates;
\* the sync has returned with that one command in its history.
C14_Witness ==
    /\ pc = "logs"
    /\ server # <<>>
    /\ Len(io) = 1
    /\ io[1].op = "emptyDatabase"
    /\ io[1].code = FINGERPRINT_PACKETRECIEVEERR
    /\ lcd = "Error clearing"

IsUpload(r) == r.op = "uploadTemplateToSensor"

\* the uploads of the history, in order
UploadsOf(log) == SelectSeq(log, IsUpload)

\* the sync went through every pair and showed its last message
SyncCompleted ==
    pc = "logs" /\ io # <<>> /\ io[Len(io)].op = "displayMessage"

\* the pairs the loop has dealt with so far
PairsDone == SubSeq(server, 1, Len(server) - Len(pending))

\* entry i of the history is an upload that returned FINGERPRINT_OK and is
\* followed by a store that returned FINGERPRINT_OK
PairStored(log, i) ==
    /\ IsUpload(log[i])
    /\ log[i].code = FINGERPRINT_OK
    /\ i < Len(log)
    /\ log[i + 1].op = "storeModel"
    /\ log[i + 1].code = FINGERPRINT_OK

\* C15: the loop over the pairs attempts an upload for every pair, in the
\* order of the answer, whatever the earlier pairs did; a pair whose upload
\* and store both returned success has its identity in the library.
C15_FailuresDoNotAbort ==
    /\ pc = "pairs" =>
         /\ Len(UploadsOf(io)) = Len(PairsDone)
         /\ \A k \in 1..Len(PairsDone) :
              /\ UploadsOf(io)[k].id = server[k].id
              /\ UploadsOf(io)[k].data = decode_base64(server[k].template)
    /\ SyncCompleted =>
         /\ Len(UploadsOf(io)) = Len(server)
         /\ \A k \in 1..Len(server) : UploadsOf(io)[k].id = server[k].id
    /\ InFullSync =>
         \A i \in 1..Len(io) :
            PairStored(io, i) => templates[io[i].id].present

\* C15 witness: of two pairs the first failed in its upload and is not in
\* the library, the second is.
C15_Witness ==
    /\ SyncCompleted
    /\ Len(server) = 2
    /\ server[1].id # server[2].id
    /\ UploadsOf(io)[1].code # FINGERPRINT_OK
    /\ ~templates[server[1].id].present
    /\ templates[server[2].id].present

RECURSIVE numbersFrom(_, _, _, _)
\* the decimal numbers written in text, left to right: cur is the value of
\* the run of digits being read, open says whether there is one
numbersFrom(text, cur, open, found) ==
    IF text = <<>> THEN (IF open THEN Append(found, cur) ELSE found)
    ELSE IF IsDigit(Head(text))
    THEN numbersFrom(Tail(text), cur * 10 + DigitVal(Head(text)), TRUE,
                     found)
    ELSE numbersFrom(Tail(text), 0, FALSE,
                     IF open THEN Append(found, cur) ELSE found)

numbersIn(text) == numbersFrom(text, 0, FALSE, <<>>)

\* what the sync says last about its outcome
SyncReport == io[Len(io)].data

\* C16: a sync that went through its pairs reports two counts, the pairs that
\* succeeded and the pairs that failed, whose sum is the number of pairs the
\* server returned.
C16_CountsSumToPairs ==
    SyncCompleted =>
        /\ Len(numbersIn(SyncReport)) = 2
        /\ numbersIn(SyncReport)[1] + numbersIn(SyncReport)[2] = Len(server)

\* the identities the library holds a template for
PresentIds(library) == {id \in SlotIds : library[id].present}

\* the identities of the pairs whose upload and store both returned success
StoredIds(log) == {log[i].id : i \in {j \in 1..Len(log) : PairStored(log, j)}}

\* the full sync has returned and the link was up when it was called
SyncReturnedLinkUp == pc = "logs" /\ io # <<>>

\* C17 as stated: whenever the full sync has returned with the link up, the
\* library holds exactly the identities of the pairs uploaded and stored in
\* this sync, and so nothing that was there only before the sync.
C17_NeverStale ==
    SyncReturnedLinkUp => PresentIds(templates) = StoredIds(io)

\* C17 amended: the same whenever emptyDatabase answered success; when it did
\* not, the sync returns with the library it was called with, with
\* "Error clearing" on the display.
C17_NeverStaleUnlessClearFailed ==
    [][(pc # "logs" /\ pc' = "logs" /\ io' # <<>>) =>
          IF io'[1].code = FINGERPRINT_OK
          THEN PresentIds(templates') = StoredIds(io')
          ELSE templates' = templates /\ lcd' = "Error clearing"]_vars

\* C17 witness: a sync went through two pairs, the upload of identity 12
\* failed and identity 7 was stored: the library holds 7 and nothing else.
C17_Witness ==
    /\ SyncCompleted
    /\ Len(server) = 2
    /\ server[1].id = 12
    /\ StoredIds(io) = {7}
    /\ PresentIds(templates) = {7}

\* the upload recorded in entry r sent every byte of its template and had
\* every packet acknowledged with success
CompletePush(r) ==
    /\ IsUpload(r)
    /\ bytesOf(r.sent) = r.data
    /\ \A k \in 1..Len(r.acks) : r.acks[k] = GoodAck

\* C18: storeModel(id) is called only directly after an upload of the same
\* pair that sent every byte of the decoded template and had every packet
\* acknowledged, so what is stored under id is the whole decoded template of
\* that pair, never part of it and never what another transfer left in the
\* sensor's buffer.
C18_WholesaleReplacement ==
    \A i \in 1..Len(io) :
        io[i].op = "storeModel" =>
            /\ i > 1
            /\ CompletePush(io[i - 1])
            /\ io[i - 1].id = io[i].id
            /\ io[i].data = io[i - 1].data

\* an upload has returned and every packet it wrote was answered by a
\* success acknowledgement
UploadAllAcked ==
    /\ pc = "uploaded"
    /\ \A k \in 1..Len(io[1].acks) : io[1].acks[k] = GoodAck

\* the packets an upload wrote after its command packet
DataPacketsOf(r) == Tail(r.sent)

\* C19: an upload whose packets are all acknowledged writes, after the
\* command, exactly one end-of-data packet, last, and before it only data
\* packets: none when the template is no longer than a packet (the empty
\* template too), N when its length is N packets and a remainder.
C19_PacketSequence ==
    UploadAllAcked =>
        LET packets == DataPacketsOf(io[1])
            L == Len(io[1].data)
            K == packet_len
        IN  /\ Len(packets) >= 1
            /\ packets[Len(packets)].type = FINGERPRINT_ENDDATAPACKET
            /\ \A k \in 1..(Len(packets) - 1) :
                  packets[k].type = FINGERPRINT_DATAPACKET
            /\ L <= K => Len(packets) = 1
            /\ L % K # 0 => Len(packets) = (L \div K) + 1

\* the positions of the answers in acks that are not a received
\* acknowledgement packet with the success status
BadAcks(acks) == {k \in 1..Len(acks) : acks[k] # GoodAck}

\* C20: an upload returns FINGERPRINT_OK only if the answer to the command
\* and to every data packet was received, was an acknowledgement packet and
\* carried the success status; at the first answer that is not, it returns
\* a failure and writes no further packet.
C20_SuccessOnlyIfAllAcked ==
    pc = "uploaded" =>
        /\ io[1].code = FINGERPRINT_OK => BadAcks(io[1].acks) = {}
        /\ BadAcks(io[1].acks) # {} =>
              /\ io[1].code # FINGERPRINT_OK
              /\ BadAcks(io[1].acks) = {Len(io[1].sent)}

\* the command packet of a transfer into buffer slot 1
DownCharCommand ==
    [type |-> FINGERPRINT_COMMANDPACKET, data |-> <<FINGERPRINT_DOWNCHAR, 1>>]

\* send and acknowledge alternate: the command for slot 1 goes first, every
\* later packet is a data or end-of-data packet of 1 to packet_len bytes,
\* and a packet is written only when the answer to the one before it was a
\* received success acknowledgement
StrictAlternation(r) ==
    /\ r.sent[1] = DownCharCommand
    /\ \A k \in 2..Len(r.sent) :
          /\ r.sent[k].type \in
                {FINGERPRINT_DATAPACKET, FINGERPRINT_ENDDATAPACKET}
          /\ Len(r.sent[k].data) \in 1..packet_len
          /\ r.acks[k - 1] = GoodAck

\* C21: an upload is a strict alternation of packet and acknowledgement,
\* command first, and when it returns FINGERPRINT_OK the payloads of its
\* data packets, in the order sent, are the bytes of the template.
C21_FaithfulTransfer ==
    pc = "uploaded" =>
        /\ StrictAlternation(io[1])
        /\ io[1].code = FINGERPRINT_OK => bytesOf(io[1].sent) = io[1].data

\* the requests to the last-identity endpoint in the history
LastIdRequests(log) == {k \in 1..Len(log) : log[k].op = "GET last id"}

\* the enrollment is at its allocation loop or past it
EnrollPcs ==
    {"fetch", "capture1", "convert1", "remove", "capture2", "convert2",
     "fuse", "retrieve", "post", "enrolled"}

\* the allocation loop ran out of attempts
AllocationExhausted == enroll.i >= 5

\* C22: an enrollment never makes more than 5 requests to the last-identity
\* endpoint, whatever the server answers, and when all attempts failed it
\* returns with "Enroll Failed" without having asked the sensor for a
\* reading.
C22_BoundedAllocation ==
    /\ pc \in EnrollPcs \cup {"menu"} =>
          Cardinality(LastIdRequests(io)) <= 5
    /\ pc = "fetch" =>
          enroll.i < 5 /\ Cardinality(LastIdRequests(io)) <= enroll.i
    /\ AllocationExhausted =>
          /\ pc \in {"menu", "idle"}
          /\ pc = "menu" =>
                /\ lcd = "Enroll Failed"
                /\ \A k \in 1..Len(io) : io[k].op = "GET last id"

\* C22 witness: five requests were made, all failed, the enrollment has
\* returned with the failure shown.
C22_Witness ==
    /\ pc = "menu"
    /\ lcd = "Enroll Failed"
    /\ AllocationExhausted
    /\ Cardinality(LastIdRequests(io)) = 5

\* one iteration of the allocation loop is taken
FetchStep ==
    /\ pc = "fetch"
    /\ wifi' = wifi
    /\ <<pc, enroll, lcd>>' # <<pc, enroll, lcd>>

\* C23: with the link down the allocation fails at once: the one attempt
\* makes no request and is followed by no retry, the enrollment returns
\* with the failure shown.
C23_LinkDownFailsFast ==
    [][(FetchStep /\ ~wifi) =>
          /\ io' = io
          /\ pc' = "menu"
          /\ lcd' = "Enroll Failed"]_vars

\* the enrollment has left its allocation loop with an identity
PastAllocation == pc \in EnrollPcs \ {"fetch"}

\* the last request to the last-identity endpoint
LastRequest(log) ==
    log[CHOOSE k \in LastIdRequests(log) :
            \A j \in LastIdRequests(log) : j <= k]

\* C24: the enrollment goes past the allocation only with the identity the
\* server named last plus one, which is then above 1; a result of 1, or of 0
\* when the 16-bit sum wraps, on the last attempt is an allocation failure.
\* No reading is asked for and no pair is posted with an identity of 1 or
\* less.
C24_IdentityAboveOne ==
    /\ PastAllocation =>
          /\ enroll.newId > 1
          /\ LastIdRequests(io) # {}
          /\ LastRequest(io).code = HTTP_CODE_OK
          /\ enroll.newId = LastRequest(io).id + 1
    /\ \A k \in 1..Len(io) :
          /\ io[k].op = "getImage" => enroll.newId > 1
          /\ io[k].op = "POST" => io[k].id = enroll.newId /\ io[k].id > 1
    /\ (pc = "menu" /\ AllocationExhausted) =>
          /\ enroll.newId <= 1
          /\ lcd = "Enroll Failed"

\* C24 witness: the server's last identity was 65535 on the fifth attempt,
\* the sum wrapped to 0 and the enrollment returned with the failure shown.
C24_Witness ==
    /\ pc = "menu"
    /\ AllocationExhausted
    /\ LastIdRequests(io) # {}
    /\ LastRequest(io).id = 65535
    /\ enroll.newId = 0
    /\ lcd = "Enroll Failed"

\* a sensor step of the enrollment that succeeded: an accepted reading, a
\* conversion, the fusion or the retrieval
IsDoneStep(r) ==
    /\ r.code = FINGERPRINT_OK
    /\ \/ r.op = "getImage" /\ r.id \in {1, 2}
       \/ r.op \in {"image2Tz", "createModel", "getModel"}

StepName(r) == <<r.op, r.id>>

\* the sensor steps that succeeded, in order
DoneSteps(log) ==
    LET done == SelectSeq(log, IsDoneStep)
    IN  [k \in 1..Len(done) |-> StepName(done[k])]

\* first capture, first conversion, second capture, second conversion,
\* fusion, retrieval
EnrollmentSteps ==
    << <<"getImage", 1>>, <<"image2Tz", 1>>, <<"getImage", 2>>,
       <<"image2Tz", 2>>, <<"createModel", 0>>, <<"getModel", 0>> >>

\* the uploads of the history
PostsIn(log) == {k \in 1..Len(log) : log[k].op = "POST"}

\* C25, in states: a pair is posted only as the last thing, after the
\* allocation and the six sensor steps succeeded in their order, and the
\* sync is called only after a post the server accepted.
C25_UploadAfterAllSteps ==
    pc \in EnrollPcs =>
        /\ \A k \in PostsIn(io) :
              /\ k = Len(io)
              /\ allocated(io[k].id)
              /\ DoneSteps(io) = EnrollmentSteps
        /\ pc \in {"post", "enrolled"} => DoneSteps(io) = EnrollmentSteps
        /\ pc = "enrolled" =>
              /\ PostsIn(io) = {Len(io)}
              /\ postJsonToServer(TRUE, io[Len(io)].code)

\* C25, in steps: the enrollment changes neither the library nor the card,
\* the sync is entered only from an accepted post, and a step that gives up
\* leaves no post behind.
C25_AbandonedWithoutEffect ==
    pc \in EnrollPcs =>
        /\ templates' = templates
        /\ sd' = sd
        /\ calls' = <<>>
        /\ pc' = "fullsync" => pc = "enrolled"
        /\ (pc' = "menu" /\ pc \notin {"post", "enrolled"}) =>
              PostsIn(io') = {}

\* C25: an enrollment posts its pair only after allocation, first capture,
\* first conversion, second capture, second conversion, fusion and retrieval
\* succeeded in this order; one that fails at any step ends with no post, no
\* sync and the library and the queue file as they were.
C25_UploadOnlyAfterEveryStep ==
    /\ []C25_UploadAfterAllSteps
    /\ [][C25_AbandonedWithoutEffect]_vars

\* C25 witness: the pair was posted and accepted after all the steps, the
\* sync is about to be called.
C25_Witness ==
    /\ pc = "enrolled"
    /\ DoneSteps(io) = EnrollmentSteps
    /\ PostsIn(io) = {Len(io)}
    /\ sd[OFFLINE_LOG_FILE] = QueuedCard
    /\ templates = EnrolledLibrary

\* the polls of the history made for reading number stage; stage 0 is the
\* removal loop
PollsOf(log, stage) ==
    {k \in 1..Len(log) : log[k].op = "getImage" /\ log[k].id = stage}

\* the accepted captures of reading number stage
CapturesOf(log, stage) ==
    {k \in PollsOf(log, stage) : log[k].code = FINGERPRINT_OK}

\* C26: every poll for the second reading, and so its capture, comes after
\* a poll that followed the first capture and reported that no finger is on
\* the sensor.
C26_LiftedBetweenReadings ==
    pc \in EnrollPcs \cup {"menu"} =>
        \A second \in PollsOf(io, 2) :
            \E first \in CapturesOf(io, 1), lifted \in PollsOf(io, 0) :
                /\ first < lifted
                /\ lifted < second
                /\ io[lifted].code = FINGERPRINT_NOFINGER

\* C26 witness: both readings were captured.
C26_Witness ==
    /\ pc = "convert2"
    /\ CapturesOf(io, 1) # {}
    /\ CapturesOf(io, 2) # {}

\* C27: every operation terminates, whatever the sensor and the server
\* answer: a handler that has started is back at the menu after a bounded
\* number of polls and requests.
C27_EveryOperationReturns == (pc # "idle") ~> (pc = "idle")

\* the bytes were encoded and the encoding decoded again
RoundTripDone ==
    pc = "decoded" /\ Len(io) = 3 /\ io[2].op = "encode_base64"

\* C28: decoding the encoding of a byte string gives the byte string back,
\* and its length as the decoded length, for the empty string and for a
\* length of every remainder modulo 3.
C28_RoundTrip ==
    RoundTripDone =>
        /\ io[3].data = io[1].data
        /\ io[3].code = Len(io[1].data)
        /\ decode_base64_length(io[2].data) = Len(io[1].data)
        /\ Len(io[2].data) = encode_base64_length(Len(io[1].data))

\* C28 witness: four bytes, a full set and one more, among them the byte
\* with every bit set, went through the round trip.
C28_Witness ==
    /\ RoundTripDone
    /\ Len(io[1].data) = 4
    /\ io[1].data[4] = 255
    /\ io[1].data[1] = 90
    /\ io[3].data = io[1].data

\* a text was decoded
TextDecoded == pc = "decoded" /\ Len(io) = 2 /\ io[1].op = "text"

\* the characters of text before its first character outside the alphabet
AlphabetPrefix(text) == SubSeq(text, 1, validPrefix(text, 0))

\* the number of padding characters that directly follow the prefix
RECURSIVE paddingFrom(_, _)
paddingFrom(text, at) ==
    IF at < Len(text) /\ text[at + 1] = "="
    THEN 1 + paddingFrom(text, at + 1)
    ELSE 0

\* the length of the prefix and the padding after it are those of an
\* encoding: whole groups of four, or a last group of two characters and
\* two paddings, or of three characters and one
ConsistentPadding(text) ==
    LET n == validPrefix(text, 0)
        pad == paddingFrom(text, n)
    IN  \/ n % 4 = 0 /\ pad = 0
        \/ n % 4 = 2 /\ pad = 2
        \/ n % 4 = 3 /\ pad = 1

\* C29: decode_base64 reads only the characters before the first one
\* outside the alphabet, and for a text whose prefix length does not agree
\* with its padding it hands back no bytes.
C29_RejectsInconsistentPadding ==
    TextDecoded =>
        /\ io[2].data = decode_base64(AlphabetPrefix(io[1].data))
        /\ ~ConsistentPadding(io[1].data) =>
              io[2].data = <<>> /\ io[2].code = 0

\* the queue file holds at least one event
QueueHoldsEvents ==
    sd[OFFLINE_LOG_FILE].exists /\ EventsOf(QueueData) # <<>>

\* a drain is running
DrainRunning == pc = "logs" \/ InDrain \/ attempts # <<>>

\* C30: with events in the queue file and the link up, a drain comes to run
\* and to attempt their delivery, unless the link goes down again first, with
\* no button pressed and no reset.
C30_DrainsWhenLinkReturns ==
    (QueueHoldsEvents /\ wifi) ~> (DrainRunning \/ ~wifi)

\* ---------------------------------------------------------------- C31
\* no button has acted and no finger has matched for longer than
\* SLEEP_TIMEOUT
Inactive == quiet > SLEEP_TIMEOUT

\* loop() has called enterLightSleep
SleepEntered == pc = "sleep"

\* C31: when no button is pressed and no fingerprint matches for longer than
\* SLEEP_TIMEOUT, loop() eventually calls enterLightSleep (unless a button
\* or a finger ends the inactivity first).
C31_SleepsWhenInactive == Inactive ~> (SleepEntered \/ ~Inactive)

\* ---------------------------------------------------------------- C32
\* the queue file was created, appended to, deleted or replaced in this step
QueueFileTouched == sd'[OFFLINE_LOG_FILE] # sd[OFFLINE_LOG_FILE]

\* the sensor's library was cleared or a model was stored in this step
LibraryTouched == templates' # templates

\* the step belongs to the enqueue (the match that calls
\* logAttendanceOffline), to the drain, to the full sync
EnqueueStep == scanForFingerprint
DrainStep ==
    \/ syncOfflineLogs_open
    \/ syncOfflineLogs_line
    \/ syncOfflineLogs_close
    \/ syncOfflineLogs_remove
    \/ syncOfflineLogs_replace
FullSyncStep == syncFingerprintsFromServer

OwnershipRespected ==
    /\ QueueFileTouched => (EnqueueStep \/ DrainStep)
    /\ LibraryTouched => FullSyncStep
    /\ FullSyncStep => ~QueueFileTouched
    /\ (EnqueueStep \/ DrainStep) => ~LibraryTouched

\* C32: the queue file is changed only by steps of the enqueue and of the
\* drain, the sensor's library only by steps of the full sync; the full sync
\* leaves the queue file alone, the enqueue and the drain leave the library
\* alone.
C32_Ownership == [][OwnershipRespected]_vars

\* an enrollment has run, the full sync has stored the server's user, an
\* event was queued and the drain has delivered a queued event
C32_Witness ==
    /\ pc = "idle"
    /\ enroll.newId > 1
    /\ templates[7].present
    /\ enqueued # <<>>
    /\ acked # {}

\* ---------------------------------------------------------------- C33
\* a drain was called on a queue file that holds data and could not open
\* its temp file: the message of line 533 is shown
TempOpenFailed ==
    /\ pc = "logs"
    /\ sd[OFFLINE_LOG_FILE].exists
    /\ QueueData # <<>>
    /\ lcd' = "SD Error"

\* the drain has returned without a delivery attempt and the card is as it
\* was
AbortedUntouched ==
    /\ pc' = "menu"
    /\ attempts' = <<>>
    /\ acked' = acked
    /\ io' = <<>>
    /\ sd' = sd

DrainAbortsOnTempFailure == TempOpenFailed => AbortedUntouched

\* C33: when the temp file cannot be opened at the start of a drain over a
\* non-empty queue file, the drain returns before any delivery attempt and
\* the queue file keeps its contents under its name.
C33_AbortBeforeDelivery == [][DrainAbortsOnTempFailure]_vars

\* a drain gave up on the temp file with events still queued
C33_Witness ==
    /\ lcd = "SD Error"
    /\ pc = "menu"
    /\ calls # <<>>
    /\ calls[Len(calls)] = "syncOfflineLogs"
    /\ EventsOf(QueueData) # <<>>
    /\ attempts = <<>>

====
